---- MODULE Spec2Model ----
(***************************************************************************)
(* A model of the VegaFusion planner and expression compiler:              *)
(*   - planning/extract.rs: the server/client split of a chart's datasets  *)
(*   - planning/stringify_local_datetimes.rs: the datetime bridge          *)
(*   - expression/compiler/member.rs: member-expression compilation        *)
(*   - transform/impute.rs, transform/aggregate.rs, transform/pipeline.rs  *)
(*   - dialect/mod.rs: the SQL dialects and their transformers             *)
(*   - transform/bin.rs: the bin transform and its parameters              *)
(*   - udfs/datetime/datetime_format.rs: format_timestamp                  *)
(* Each part has its own specification over the module's variables; the    *)
(* variables of the other parts stay at their idle values.                 *)
(***************************************************************************)
EXTENDS Integers, Sequences, FiniteSets, TLC

\* Longest transform pipeline of the dataset under study.
MaxTx == 3
\* Most datasets in a chart with several datasets.
MaxData == 2

VARIABLES
    input_spec,      \* the chart-spec handed to extract_server_data (never changes)
    input_scope,     \* the task scope handed to extract_server_data (never changes)
    client_spec,     \* client_spec: &mut ChartSpec
    server_spec,     \* ExtractServerDataVisitor.server_spec
    task_scope,      \* ExtractServerDataVisitor.task_scope
    supported_vars,  \* ExtractServerDataVisitor.supported_vars
    walk,            \* the visits walk_mut still has to make
    placed,          \* for each visited dataset, its index in the server scope's data (0: none)
    outcome          \* "walking", or the Result of extract_server_data: "Ok" / "Err"

extract_vars == <<input_spec, input_scope, client_spec, server_spec, task_scope,
                  supported_vars, walk, placed, outcome>>

\* stringify_local_datetimes
VARIABLES
    st_input,               \* [server, client]: the two specs on entry (never changes)
    st_server_spec,         \* server_spec: &mut ChartSpec
    st_client_spec,         \* client_spec: &mut ChartSpec
    comm_plan,              \* comm_plan: &CommPlan
    st_pc,                  \* the statement stringify_local_datetimes is at
    st_scope,               \* the task scope of the pass under way
    local_time_scales,      \* CollectTimeScalesVisitor.local_time_scales
    candidate_datasets,     \* candidate_datasets
    local_datetime_fields,  \* CollectLocalTimeScaledFieldsVisitor.local_datetime_fields
    st_walk,                \* the visits the walk under way still has to make
    st_failed,              \* the passes that have raised an error
    st_result               \* "running", or the Result returned: "Ok" / "Err"

st_vars == <<st_input, st_server_spec, st_client_spec, comm_plan, st_pc, st_scope,
             local_time_scales, candidate_datasets, local_datetime_fields,
             st_walk, st_failed, st_result>>

\* compile_member
VARIABLES
    m_node,     \* node: &MemberExpression
    m_config,   \* config: &CompilationConfig
    m_schema,   \* schema: &DFSchema
    m_result    \* what compile_member returned, once it has

member_vars == <<m_node, m_config, m_schema, m_result>>

\* The functions that are applied in one step.
VARIABLES
    fn_args,    \* the arguments of the call
    fn_ret      \* what the call returned, once it has

fn_vars == <<fn_args, fn_ret>>

\* TransformPipeline::call; its arguments and its result are fn_args, fn_ret.
VARIABLES
    pl_result_df,       \* result_df
    pl_result_signals,  \* result_signals
    pl_config,          \* config: the clone of the caller's
    pl_calls            \* what each tx.call made so far was given

pl_vars == <<pl_result_df, pl_result_signals, pl_config, pl_calls>>

\* The bin transform; the transform is fn_args, what it produced fn_ret.
VARIABLES
    bin_pc,      \* the statement calculate_bin_params is at, then the evaluation
    bin_span,    \* span
    bin_step,    \* step
    bin_params   \* the BinParams calculate_bin_params returned, once it has

bin_vars == <<bin_pc, bin_span, bin_step, bin_params>>

vars == <<extract_vars, st_vars, member_vars, fn_vars, pl_vars, bin_vars>>

\* What each part of the model leaves alone.
beside_extract == <<st_vars, member_vars, fn_vars, pl_vars, bin_vars>>
beside_stringify == <<extract_vars, member_vars, fn_vars, pl_vars, bin_vars>>
beside_member == <<extract_vars, st_vars, fn_vars, pl_vars, bin_vars>>
beside_fn == <<extract_vars, st_vars, member_vars, pl_vars, bin_vars>>
beside_pipeline == <<extract_vars, st_vars, member_vars, bin_vars>>
beside_bin == <<extract_vars, st_vars, member_vars, pl_vars>>

\* extract_server_data is not running.
ExtractIdle ==
    /\ input_spec = <<>> /\ input_scope = <<>> /\ client_spec = <<>>
    /\ server_spec = <<>> /\ task_scope = <<>> /\ supported_vars = <<>>
    /\ walk = <<>> /\ placed = <<>> /\ outcome = "idle"

\* stringify_local_datetimes is not running.
StIdle ==
    /\ st_input = <<>> /\ st_server_spec = <<>> /\ st_client_spec = <<>>
    /\ comm_plan = <<>> /\ st_pc = "idle" /\ st_scope = <<>>
    /\ local_time_scales = {} /\ candidate_datasets = {}
    /\ local_datetime_fields = <<>> /\ st_walk = <<>> /\ st_failed = {}
    /\ st_result = "idle"

\* compile_member is not running.
MemberIdle ==
    /\ m_node = <<>> /\ m_config = <<>> /\ m_schema = <<>> /\ m_result = <<>>

\* No function is being applied.
FnIdle == fn_args = <<>> /\ fn_ret = <<>>

\* TransformPipeline::call is not running.
PipelineIdle ==
    /\ pl_result_df = <<>> /\ pl_result_signals = <<>>
    /\ pl_config = <<>> /\ pl_calls = <<>>

\* The bin transform is not running.
BinIdle ==
    /\ bin_pc = <<>> /\ bin_span = <<>> /\ bin_step = <<>> /\ bin_params = <<>>

\* A call that has not returned, and one that returned a value.
NotReturned == [done |-> FALSE, value |-> <<>>]
Returned(value) == [done |-> TRUE, value |-> value]

----------------------------------------------------------------------------
(* Option<T>: None is the empty sequence, Some(v) a one-element sequence.  *)
None == <<>>
Some(v) == <<v>>
IsSome(o) == Len(o) = 1
Unwrap(o) == o[1]

Parent(scope) == SubSeq(scope, 1, Len(scope) - 1)

RECURSIVE SeqToSet(_)
SeqToSet(s) == IF s = <<>> THEN {} ELSE {Head(s)} \cup SeqToSet(Tail(s))

DataNames(datas) == {datas[i].name : i \in 1..Len(datas)}

----------------------------------------------------------------------------
(* TransformSpec: supported() and output_signals() are all the planner     *)
(* reads; id tells the transforms of one pipeline apart.                   *)
supported(tx) == tx.supported
tx_output_signals(tx) == tx.signal

RECURSIVE output_signals_of(_)
output_signals_of(txs) ==
    IF txs = <<>> THEN <<>>
    ELSE tx_output_signals(Head(txs)) \o output_signals_of(Tail(txs))

\* DataSpec::output_signals
output_signals(data) == output_signals_of(data.transform)

\* extract.rs 52-57: server_tx
RECURSIVE take_while_supported(_)
take_while_supported(txs) ==
    IF txs = <<>> \/ ~supported(Head(txs)) THEN <<>>
    ELSE <<Head(txs)>> \o take_while_supported(Tail(txs))

\* A client_tx that filters the supported transforms out instead of skipping
\* the leading ones.
RECURSIVE filter_unsupported(_)
filter_unsupported(txs) ==
    IF txs = <<>> THEN <<>>
    ELSE IF supported(Head(txs)) THEN filter_unsupported(Tail(txs))
    ELSE <<Head(txs)>> \o filter_unsupported(Tail(txs))

\* extract.rs 59-64: client_tx
RECURSIVE skip_while_supported(_)
skip_while_supported(txs) ==
    IF txs = <<>> \/ ~supported(Head(txs)) THEN txs
    ELSE skip_while_supported(Tail(txs))

----------------------------------------------------------------------------
(* TaskScope: one node per scope path, holding the data and signal names   *)
(* bound there and, for each signal a dataset's transforms emit, the       *)
(* dataset that emits it.                                                  *)

\* Variable::new_data, Variable::new_scale
new_data(name) == [ns |-> "data", name |-> name]
new_scale(name) == [ns |-> "scale", name |-> name]

\* Whether a task-scope node binds a variable.
binds(node, var) ==
    CASE var.ns = "data" -> var.name \in node.datasets
      [] var.ns = "scale" -> var.name \in node.scales
      [] OTHER -> var.name \in node.signals

\* TaskScope::resolve_scope: the nearest scope, from `scope` outwards, that
\* binds `var`; None when no scope does.
RECURSIVE resolve_scope(_, _, _)
resolve_scope(ts, var, scope) ==
    IF scope \in DOMAIN ts /\ binds(ts[scope], var) THEN Some(scope)
    ELSE IF scope = <<>> THEN None
    ELSE resolve_scope(ts, var, Parent(scope))

\* TaskScope::add_variable for a data variable: the name must be unused at
\* the scope.
add_variable(ts, name, scope) ==
    IF scope \notin DOMAIN ts \/ name \in ts[scope].datasets
    THEN [ok |-> FALSE, scope |-> ts]
    ELSE [ok |-> TRUE,
          scope |-> [ts EXCEPT ![scope].datasets = @ \cup {name}]]

\* TaskScope::remove_data_signal: the signal must be a dataset's output
\* signal at the scope.
remove_data_signal(ts, sig, scope) ==
    IF scope \notin DOMAIN ts
       \/ ~\E p \in ts[scope].output_var_defs : p[1] = sig
    THEN [ok |-> FALSE, scope |-> ts]
    ELSE [ok |-> TRUE,
          scope |-> [ts EXCEPT ![scope].signals = @ \ {sig},
                               ![scope].output_var_defs =
                                   {p \in @ : p[1] # sig}]]

\* TaskScope::add_data_signal
add_data_signal(ts, data_name, sig, scope) ==
    IF scope \notin DOMAIN ts
    THEN [ok |-> FALSE, scope |-> ts]
    ELSE [ok |-> TRUE,
          scope |-> [ts EXCEPT ![scope].signals = @ \cup {sig},
                               ![scope].output_var_defs =
                                   @ \cup {<<sig, data_name>>}]]

\* The task-scope node of one scope of a chart.
scope_node_of(datas) ==
    [datasets |-> DataNames(datas),
     scales |-> {},
     signals |-> UNION {SeqToSet(output_signals(datas[i])) : i \in 1..Len(datas)},
     output_var_defs |->
        UNION {{<<sig, datas[i].name>> : sig \in SeqToSet(output_signals(datas[i]))}
               : i \in 1..Len(datas)}]

\* ChartSpec::to_task_scope, for the datasets of a chart.
to_task_scope(chart) == [s \in DOMAIN chart |-> scope_node_of(chart[s])]

----------------------------------------------------------------------------
(* ChartSpec: a chart maps each scope path (the root <<>> and one path per *)
(* nested group mark) to the datasets defined there.                       *)

\* ChartSpec::get_nested_group_mut succeeds when the group exists.
get_nested_group_mut(spec, scope) == scope \in DOMAIN spec

NumGroups(spec, parent) ==
    Cardinality({p \in DOMAIN spec : Len(p) = Len(parent) + 1
                                     /\ Parent(p) = parent})

\* The new group put in the place of the parent's first group mark.
push_group_first(spec, parent) == spec @@ (Append(parent, 0) :> <<>>)

\* marks.push(new_group): the new group is the parent's next group mark.
push_group(spec, parent) ==
    spec @@ (Append(parent, NumGroups(spec, parent)) :> <<>>)

push_data(spec, scope, data) == [spec EXCEPT ![scope] = Append(@, data)]

----------------------------------------------------------------------------
(* ExtractServerDataVisitor                                                *)

\* extract.rs 66-68: the name of the server half of a split dataset.
server_name_of(data) == "_server_" \o data.name

\* extract.rs 70-73: the server half of a split dataset.
split_server_data(data) ==
    [data EXCEPT !.name = server_name_of(data),
                 !.transform = take_while_supported(data.transform)]

\* extract.rs 88-93: what stays on the client of a split dataset.
split_client_data(data) ==
    [data EXCEPT !.source = Some(server_name_of(data)),
                 !.format = None,
                 !.values = None,
                 !.transform = skip_while_supported(data.transform),
                 !.on = None,
                 !.url = None]

\* A clear_client_data that leaves `on` where it is.
clear_client_data_keeps_on(data) ==
    [data EXCEPT !.format = None,
                 !.source = None,
                 !.values = None,
                 !.transform = <<>>,
                 !.url = None]

\* extract.rs 119-124: what stays on the client of a dataset moved whole.
clear_client_data(data) ==
    [data EXCEPT !.format = None,
                 !.source = None,
                 !.values = None,
                 !.transform = <<>>,
                 !.on = None,
                 !.url = None]

\* An add_variable whose error is dropped.
register_server_data_unchecked(ts, name, scope) ==
    [ok |-> TRUE, scope |-> add_variable(ts, name, scope).scope]

\* No add_variable at all.
register_server_data_forgotten(ts, name, scope) ==
    [ok |-> TRUE, scope |-> ts]

\* extract.rs 97-98: self.task_scope.add_variable(..)?
register_server_data(ts, name, scope) == add_variable(ts, name, scope)

\* The signals left where they are.
move_signals_skipped(ts, sigs, name, scope) == [ok |-> TRUE, scope |-> ts]

\* extract.rs 101-104: the loop over the signals of the moved transforms.
RECURSIVE move_signals(_, _, _, _)
move_signals(ts, sigs, name, scope) ==
    IF sigs = <<>> THEN [ok |-> TRUE, scope |-> ts]
    ELSE LET removed == remove_data_signal(ts, Head(sigs), scope)
         IN  IF ~removed.ok THEN [ok |-> FALSE, scope |-> ts]
             ELSE LET added == add_data_signal(removed.scope, name, Head(sigs), scope)
                  IN  IF ~added.ok THEN [ok |-> FALSE, scope |-> removed.scope]
                      ELSE move_signals(added.scope, Tail(sigs), name, scope)

\* extract.rs 48-105: the PartiallySupported arm of visit_data.
visit_partially_supported(cs, ss, ts, scope, i) ==
    LET data == cs[scope][i]
        server_data == split_server_data(data)
        server_signals == output_signals(server_data)
    IN  IF ~get_nested_group_mut(ss, scope)
        THEN [ok |-> FALSE, client |-> cs, server |-> ss, scope |-> ts]
        ELSE
        LET ss2 == push_data(ss, scope, server_data)
            cs2 == [cs EXCEPT ![scope][i] = split_client_data(data)]
            reg == register_server_data(ts, server_data.name, scope)
        IN  IF ~reg.ok
            THEN [ok |-> FALSE, client |-> cs2, server |-> ss2, scope |-> ts]
            ELSE LET moved == move_signals(reg.scope, server_signals,
                                           server_data.name, scope)
                 IN  [ok |-> moved.ok, client |-> cs2, server |-> ss2,
                      scope |-> moved.scope]

\* extract.rs 106-125: the other arm of visit_data.
visit_otherwise(cs, ss, ts, scope, i) ==
    LET data == cs[scope][i]
    IN  IF ~get_nested_group_mut(ss, scope)
        THEN [ok |-> FALSE, client |-> cs, server |-> ss, scope |-> ts]
        ELSE [ok |-> TRUE,
              client |-> [cs EXCEPT ![scope][i] = clear_client_data(data)],
              server |-> push_data(ss, scope, data),
              scope |-> ts]

\* self.supported_vars.get(&data_var): None when the map has no entry.
supported_vars_get(sv, name, scope) ==
    IF <<name, scope>> \in DOMAIN sv THEN Some(sv[<<name, scope>>]) ELSE None

\* extract.rs 44-147: ExtractServerDataVisitor::visit_data.
visit_data(cs, ss, ts, sv, scope, i) ==
    IF supported_vars_get(sv, cs[scope][i].name, scope) = Some("PartiallySupported")
    THEN visit_partially_supported(cs, ss, ts, scope, i)
    ELSE visit_otherwise(cs, ss, ts, scope, i)

\* extract.rs 149-171: ExtractServerDataVisitor::visit_group_mark.
visit_group_mark(ss, scope) ==
    LET parent_scope == Parent(scope)
    IN  IF ~get_nested_group_mut(ss, parent_scope)
        THEN [ok |-> FALSE, server |-> ss]
        ELSE [ok |-> TRUE, server |-> push_group(ss, parent_scope)]

----------------------------------------------------------------------------
(* The walk and the supportability analysis                                *)

DataVisit(scope, i) == [kind |-> "data", scope |-> scope, index |-> i]
GroupVisit(scope) == [kind |-> "group", scope |-> scope, index |-> 0]

\* ChartSpec::walk_mut: the datasets of a scope in order, then each group
\* mark of the scope: the group mark itself, then what is inside it.
RECURSIVE walk_mut(_, _), walk_groups(_, _, _)
walk_mut(chart, scope) ==
    [i \in 1..Len(chart[scope]) |-> DataVisit(scope, i)]
        \o walk_groups(chart, scope, 0)
walk_groups(chart, scope, k) ==
    IF k >= NumGroups(chart, scope) THEN <<>>
    ELSE <<GroupVisit(Append(scope, k))>>
            \o walk_mut(chart, Append(scope, k))
            \o walk_groups(chart, scope, k + 1)

IndexOfName(datas, name) == CHOOSE i \in 1..Len(datas) : datas[i].name = name

\* The nearest scope of a chart, from `scope` outwards, with a dataset `name`.
RECURSIVE resolve_in_chart(_, _, _)
resolve_in_chart(chart, name, scope) ==
    IF name \in DataNames(chart[scope]) THEN Some(scope)
    ELSE IF scope = <<>> THEN None
    ELSE resolve_in_chart(chart, name, Parent(scope))

\* The dataset a dataset's source names, as a DataVisit; None when the name
\* resolves nowhere.
resolve_source(chart, scope, i) ==
    LET name == Unwrap(chart[scope][i].source)
        r == resolve_in_chart(chart, name, scope)
    IN  IF r = None THEN None
        ELSE Some(DataVisit(Unwrap(r), IndexOfName(chart[Unwrap(r)], name)))

\* DataSupported of one dataset: Supported when every transform is supported
\* and its source is Supported; PartiallySupported when a non-empty run of
\* supported transforms ends at an unsupported one; Unsupported otherwise.
RECURSIVE data_supported(_, _, _)
data_supported(chart, scope, i) ==
    LET data == chart[scope][i]
        prefix == take_while_supported(data.transform)
        src == IF IsSome(data.source) THEN resolve_source(chart, scope, i) ELSE None
        inputs_supported ==
            \/ ~IsSome(data.source)
            \/ /\ IsSome(src)
               /\ data_supported(chart, Unwrap(src).scope, Unwrap(src).index)
                    = "Supported"
    IN  IF prefix = data.transform /\ inputs_supported THEN "Supported"
        ELSE IF prefix # <<>> /\ prefix # data.transform THEN "PartiallySupported"
        ELSE "Unsupported"

\* get_supported_data_variables
get_supported_data_variables(chart) ==
    LET keys == UNION {{<<chart[s][i].name, s>> : i \in 1..Len(chart[s])}
                       : s \in DOMAIN chart}
    IN  [k \in keys |->
            data_supported(chart, k[2], IndexOfName(chart[k[2]], k[1]))]

----------------------------------------------------------------------------
(* The charts extract_server_data is run on                                *)

\* The group trees, each as its scope paths in walk order: a group nested in
\* a group, and two sibling groups.
TreeShapes == {<< <<>>, <<0>>, <<0, 0>> >>, << <<>>, <<0>>, <<1>> >>}

Names == {"a", "_server_a"}

Plain == [supported |-> TRUE, emits |-> FALSE]
Emitting == [supported |-> TRUE, emits |-> TRUE]
Unknown == [supported |-> FALSE, emits |-> FALSE]
TxKinds == {Plain, Emitting, Unknown}

Pipelines(n) == UNION {[1..k -> TxKinds] : k \in 0..n}
ShortPipelines == {<<>>, <<Plain>>, <<Unknown>>, <<Plain, Unknown>>,
                   <<Emitting, Unknown>>}

FromSource(n) == [source |-> Some(n), url |-> None, values |-> None,
                  format |-> None, on |-> Some("o")]
Origins ==
    {[source |-> None, url |-> Some("u"), values |-> None,
      format |-> Some("f"), on |-> Some("o")],
     [source |-> None, url |-> None, values |-> Some("v"),
      format |-> None, on |-> None]}
    \cup {FromSource(n) : n \in Names}

mk_data(name, origin, kinds) ==
    [name |-> name, source |-> origin.source, url |-> origin.url,
     values |-> origin.values, format |-> origin.format, on |-> origin.on,
     transform |->
        [i \in 1..Len(kinds) |->
            [id |-> i, supported |-> kinds[i].supported,
             signal |-> IF kinds[i].emits
                        THEN Some(name \o "_sig" \o ToString(i)) ELSE None]]]

\* Distinct data names in each scope, and every source names a dataset the
\* walk reaches before the dataset that reads it: one of an enclosing scope,
\* or an earlier one of the same scope.
WellFormed(chart) ==
    \A s \in DOMAIN chart :
        /\ Cardinality(DataNames(chart[s])) = Len(chart[s])
        /\ \A i \in 1..Len(chart[s]) :
              IsSome(chart[s][i].source) =>
                  LET src == resolve_source(chart, s, i)
                  IN  /\ IsSome(src)
                      /\ Unwrap(src).scope = s => Unwrap(src).index < i

Datasets(pipelines) ==
    {mk_data(n, o, k) : n \in Names, o \in Origins, k \in pipelines}

\* One dataset with a pipeline of up to MaxTx transforms, or up to MaxData
\* datasets with short pipelines.
Families == {[datasets |-> Datasets(Pipelines(MaxTx)), budget |-> 1],
             [datasets |-> Datasets(ShortPipelines), budget |-> MaxData]}

\* A task scope that registers a signal nowhere.
without_signal(ts, sig) ==
    [s \in DOMAIN ts |->
        [ts[s] EXCEPT !.signals = @ \ {sig},
                      !.output_var_defs = {p \in @ : p[1] # sig}]]

\* The task scopes the caller hands over with a chart: the chart's own, and
\* one that lacks the signal of the first transform of the datasets "a".
TaskScopesOf(chart) ==
    {to_task_scope(chart), without_signal(to_task_scope(chart), "a_sig1")}

----------------------------------------------------------------------------
(* extract_server_data as a state machine: one step per visit of the walk  *)

\* The state extract_server_data starts the walk in (extract.rs 15-17).
StartExtract(chart, scope) ==
    /\ input_spec = chart
    /\ input_scope = scope
    /\ client_spec = chart
    /\ server_spec = (<<>> :> <<>>)
    /\ task_scope = scope
    /\ supported_vars = get_supported_data_variables(chart)
    /\ walk = walk_mut(chart, <<>>)
    /\ placed = <<>>
    /\ outcome = "walking"

InitExtract ==
    /\ StIdle /\ MemberIdle /\ FnIdle /\ PipelineIdle /\ BinIdle
    /\ \E shape \in TreeShapes, f \in Families :
      \E k1 \in 0..f.budget :
      \E k2 \in 0..(f.budget - k1) :
      \E k3 \in 0..(f.budget - k1 - k2) :
      \E d1 \in [1..k1 -> f.datasets], d2 \in [1..k2 -> f.datasets],
         d3 \in [1..k3 -> f.datasets] :
          LET chart == (shape[1] :> d1) @@ (shape[2] :> d2) @@ (shape[3] :> d3)
          IN  /\ WellFormed(chart)
              /\ \E scope \in TaskScopesOf(chart) : StartExtract(chart, scope)

\* walk_mut calls visit_data; an Err ends the walk (extract.rs 18).
VisitData ==
    /\ outcome = "walking"
    /\ walk # <<>>
    /\ Head(walk).kind = "data"
    /\ LET v == Head(walk)
           r == visit_data(client_spec, server_spec, task_scope, supported_vars,
                           v.scope, v.index)
           grown == /\ v.scope \in DOMAIN server_spec
                    /\ Len(r.server[v.scope]) > Len(server_spec[v.scope])
       IN  /\ client_spec' = r.client
           /\ server_spec' = r.server
           /\ task_scope' = r.scope
           /\ placed' = placed @@ (<<v.scope, v.index>> :>
                            IF grown THEN Len(r.server[v.scope]) ELSE 0)
           /\ walk' = IF r.ok THEN Tail(walk) ELSE walk
           /\ outcome' = IF r.ok THEN "walking" ELSE "Err"
    /\ UNCHANGED <<input_spec, input_scope, supported_vars>>
    /\ UNCHANGED beside_extract

\* walk_mut calls visit_group_mark before it walks into the group.
VisitGroupMark ==
    /\ outcome = "walking"
    /\ walk # <<>>
    /\ Head(walk).kind = "group"
    /\ LET r == visit_group_mark(server_spec, Head(walk).scope)
       IN  /\ server_spec' = r.server
           /\ walk' = IF r.ok THEN Tail(walk) ELSE walk
           /\ outcome' = IF r.ok THEN "walking" ELSE "Err"
    /\ UNCHANGED <<input_spec, input_scope, supported_vars, client_spec,
                   task_scope, placed>>
    /\ UNCHANGED beside_extract

\* extract.rs 20: Ok(extract_server_visitor.server_spec)
Return ==
    /\ outcome = "walking"
    /\ walk = <<>>
    /\ outcome' = "Ok"
    /\ UNCHANGED <<input_spec, input_scope, supported_vars, client_spec,
                   server_spec, task_scope, placed, walk>>
    /\ UNCHANGED beside_extract

NextExtract == VisitData \/ VisitGroupMark \/ Return

Spec == InitExtract /\ [][NextExtract]_vars

--------------------------------------------------------------------------
\* stringify_local_datetimes (stringify_local_datetimes.rs).
\*
\* A chart here is a record [data, scales, marks, group]: for every scope the
\* datasets, the scales and the non-group marks it declares, and the `from`
\* and `encode` of the group mark that opens scope <<0>>.

\* The scopes of the charts under study: the root and one nested group.
StScopes == {<<>>, <<0>>}

\* (Variable, scope): a ScopedVariable.
ScopedVar(var, scope) == [var |-> var, scope |-> scope]

\* ChartSpec::to_task_scope: one node per scope with the names it declares.
\* Building it adds the datasets one by one, which fails on a name that is
\* already in use at its scope.
to_task_scope_result(chart) ==
    [ok |-> \A s \in StScopes :
                Cardinality(DataNames(chart.data[s])) = Len(chart.data[s]),
     scope |-> [s \in StScopes |->
                  [datasets |-> DataNames(chart.data[s]),
                   scales |-> {chart.scales[s][i].name : i \in 1..Len(chart.scales[s])},
                   signals |-> {},
                   output_var_defs |-> {}]]]

\* A visit_scale that takes a utc scale for a local time scale too.
visit_scale_utc_too(scales, scale, scope) ==
    IF scale.type \in {Some("time"), Some("utc")}
    THEN scales \cup {ScopedVar(new_scale(scale.name), scope)}
    ELSE scales

\* CollectTimeScalesVisitor::visit_scale
visit_scale(scales, scale, scope) ==
    IF scale.type = Some("time")
    THEN scales \cup {ScopedVar(new_scale(scale.name), scope)}
    ELSE scales

\* client_spec.walk(CollectTimeScalesVisitor): visit_scale on every scale of
\* the first scope of `todo` from the i-th on, then the scales of the other
\* scopes of `todo`.
RECURSIVE walk_scales(_, _, _, _)
walk_scales(chart, scales, todo, i) ==
    IF todo = <<>> THEN scales
    ELSE IF i > Len(chart.scales[Head(todo)])
         THEN walk_scales(chart, scales, Tail(todo), 1)
         ELSE walk_scales(chart,
                          visit_scale(scales, chart.scales[Head(todo)][i], Head(todo)),
                          todo, i + 1)

\* The candidate datasets: the Data variables the server sends to the client.
candidates_of(plan) == {v \in plan.server_to_client : v.var.ns = "data"}

\* local_datetime_fields.entry(key).or_default().insert(field)
insert_field(fields, key, field) ==
    IF key \in DOMAIN fields
    THEN [fields EXCEPT ![key] = @ \cup {field}]
    ELSE fields @@ (key :> {field})

\* The loop over the channels of a mark whose dataset is a candidate.
RECURSIVE collect_channels(_, _, _, _, _, _)
collect_channels(fields, ts, scales, channels, key, scope) ==
    IF channels = <<>> THEN [ok |-> TRUE, fields |-> fields]
    ELSE LET channel == Head(channels)
         IN  IF /\ IsSome(channel.scale)
                /\ IsSome(channel.field)
                /\ Unwrap(channel.field).kind = "Field"
             THEN LET scale_var == new_scale(Unwrap(channel.scale))
                      resolved_scale == resolve_scope(ts, scale_var, scope)
                  IN  IF resolved_scale = None
                      THEN [ok |-> FALSE, fields |-> fields]
                      ELSE IF ScopedVar(scale_var, Unwrap(resolved_scale)) \in scales
                           THEN collect_channels(
                                    insert_field(fields, key, Unwrap(channel.field).name),
                                    ts, scales, Tail(channels), key, scope)
                           ELSE collect_channels(fields, ts, scales,
                                                 Tail(channels), key, scope)
             ELSE collect_channels(fields, ts, scales, Tail(channels), key, scope)

\* CollectLocalTimeScaledFieldsVisitor::visit_non_group_mark
visit_non_group_mark(fields, ts, cands, scales, mark, scope) ==
    IF ~IsSome(mark.from) THEN [ok |-> TRUE, fields |-> fields]
    ELSE LET data_var == new_data(Unwrap(mark.from))
             resolved_data == resolve_scope(ts, data_var, scope)
         IN  IF resolved_data = None THEN [ok |-> FALSE, fields |-> fields]
             ELSE IF ScopedVar(data_var, Unwrap(resolved_data)) \in cands
                  THEN collect_channels(fields, ts, scales, mark.channels,
                                        ScopedVar(data_var, Unwrap(resolved_data)),
                                        scope)
                  ELSE [ok |-> TRUE, fields |-> fields]

\* The field names that occur in the charts under study, in string order.
FieldOrder == <<"f", "g", "h">>

\* itertools::sorted over a set of field names.
sorted(fields) == SelectSeq(FieldOrder, LAMBDA f : f \in fields)

\* The formula that writes a local datetime string over the field.
time_format_formula(field) ==
    [kind |-> "formula",
     expr |-> "timeFormat(datum['" \o field \o "'], '%Y-%m-%d %H:%M:%S.%L')",
     as |-> field]

\* The formula that parses the string back to a date.
to_date_formula(field) ==
    [kind |-> "formula", expr |-> "toDate(datum['" \o field \o "'])", as |-> field]

\* A loop that inserts every timeFormat formula at the front.
RECURSIVE push_time_formats_at_front(_, _)
push_time_formats_at_front(transforms, fs) ==
    IF fs = <<>> THEN transforms
    ELSE push_time_formats_at_front(<<time_format_formula(Head(fs))>> \o transforms,
                                    Tail(fs))

\* for field in sorted(fields) { transforms.push(timeFormat formula) }
RECURSIVE push_time_formats(_, _)
push_time_formats(transforms, fs) ==
    IF fs = <<>> THEN transforms
    ELSE push_time_formats(Append(transforms, time_format_formula(Head(fs))), Tail(fs))

\* The toDate formulas put after the transforms.
RECURSIVE to_dates_at_end(_, _)
to_dates_at_end(transforms, fs) ==
    IF fs = <<>> THEN transforms
    ELSE to_dates_at_end(Append(transforms, to_date_formula(Head(fs))), Tail(fs))

\* for field in sorted(fields) { transforms.insert(0, toDate formula) }
RECURSIVE insert_to_dates(_, _)
insert_to_dates(transforms, fs) ==
    IF fs = <<>> THEN transforms
    ELSE insert_to_dates(<<to_date_formula(Head(fs))>> \o transforms, Tail(fs))

\* StringifyLocalDatetimeFieldsVisitor::visit_data: the dataset is changed in
\* place, so what was pushed before an error stays.
stringify_visit_data(data, fields, ts, scope) ==
    LET data_var == ScopedVar(new_data(data.name), scope)
        pushed == IF data_var \in DOMAIN fields
                  THEN [data EXCEPT !.transform =
                            push_time_formats(@, sorted(fields[data_var]))]
                  ELSE data
    IN  IF ~IsSome(data.source) THEN [ok |-> TRUE, data |-> pushed]
        ELSE LET source_var == new_data(Unwrap(data.source))
                 source_resolved == resolve_scope(ts, source_var, scope)
             IN  IF source_resolved = None THEN [ok |-> FALSE, data |-> pushed]
                 ELSE LET key == ScopedVar(source_var, Unwrap(source_resolved))
                      IN  [ok |-> TRUE,
                           data |-> IF key \in DOMAIN fields
                                    THEN [pushed EXCEPT !.transform =
                                              insert_to_dates(@, sorted(fields[key]))]
                                    ELSE pushed]

\* FormatLocalDatetimeFieldsVisitor::visit_data, which always returns Ok.
format_visit_data(data, fields, scope) ==
    LET data_var == ScopedVar(new_data(data.name), scope)
    IN  IF data_var \in DOMAIN fields
        THEN [data EXCEPT !.transform = insert_to_dates(@, sorted(fields[data_var]))]
        ELSE data

\* What the caller does with the Result of the walk over the server spec:
\* TRUE when it goes on to the next statement, FALSE when it returns the error.
\* A walk whose Result is dropped:
server_pass_result_dropped(ok) == TRUE
\* `server_spec.walk_mut(&mut visitor)?`
server_pass_continues(ok) == ok

MarkVisit(scope, i) == [kind |-> "mark", scope |-> scope, index |-> i]

\* ChartSpec::walk as the collecting visitor sees it: the marks of the root,
\* the group mark, then the marks inside the group.
walk_marks(chart) ==
    [i \in 1..Len(chart.marks[<<>>]) |-> MarkVisit(<<>>, i)]
        \o <<GroupVisit(<<0>>)>>
        \o [i \in 1..Len(chart.marks[<<0>>]) |-> MarkVisit(<<0>>, i)]

\* ChartSpec::walk_mut as a visitor of datasets sees it.
walk_data(chart) ==
    SelectSeq(walk_mut(chart.data, <<>>), LAMBDA v : v.kind = "data")

\* The function returns the error of `pass`.
StFail(pass) ==
    /\ st_failed' = st_failed \cup {pass}
    /\ st_result' = "Err"

\* stringify_local_datetimes.rs 36: client_spec.to_task_scope()?
StClientScope ==
    /\ st_pc = "client_scope" /\ st_result = "running"
    /\ LET r == to_task_scope_result(st_client_spec)
       IN  IF r.ok
           THEN /\ st_scope' = r.scope
                /\ st_pc' = "time_scales"
                /\ UNCHANGED <<st_failed, st_result>>
           ELSE /\ StFail("client_scope")
                /\ UNCHANGED <<st_scope, st_pc>>
    /\ UNCHANGED <<st_input, st_server_spec, st_client_spec, comm_plan,
                   local_time_scales, candidate_datasets, local_datetime_fields,
                   st_walk>>
    /\ UNCHANGED beside_stringify

\* stringify_local_datetimes.rs 39-56: the time scales, the candidate
\* datasets and the visitor that collects the fields.
StCollectTimeScales ==
    /\ st_pc = "time_scales" /\ st_result = "running"
    /\ local_time_scales' = walk_scales(st_client_spec, {}, <<<<>>, <<0>>>>, 1)
    /\ candidate_datasets' = candidates_of(comm_plan)
    /\ st_walk' = walk_marks(st_client_spec)
    /\ st_pc' = "collect"
    /\ UNCHANGED <<st_input, st_server_spec, st_client_spec, comm_plan, st_scope,
                   local_datetime_fields, st_failed, st_result>>
    /\ UNCHANGED beside_stringify

\* stringify_local_datetimes.rs 57: the walk calls visit_non_group_mark.
StVisitNonGroupMark ==
    /\ st_pc = "collect" /\ st_result = "running"
    /\ st_walk # <<>> /\ Head(st_walk).kind = "mark"
    /\ LET v == Head(st_walk)
           r == visit_non_group_mark(local_datetime_fields, st_scope,
                                     candidate_datasets, local_time_scales,
                                     st_client_spec.marks[v.scope][v.index], v.scope)
       IN  IF r.ok
           THEN /\ local_datetime_fields' = r.fields
                /\ st_walk' = Tail(st_walk)
                /\ UNCHANGED <<st_failed, st_result>>
           ELSE /\ StFail("collect")
                /\ UNCHANGED <<local_datetime_fields, st_walk>>
    /\ UNCHANGED <<st_input, st_server_spec, st_client_spec, comm_plan, st_pc,
                   st_scope, local_time_scales, candidate_datasets>>
    /\ UNCHANGED beside_stringify

\* The collecting visitor has no visit_group_mark: a group mark is passed by.
StVisitGroupMark ==
    /\ st_pc = "collect" /\ st_result = "running"
    /\ st_walk # <<>> /\ Head(st_walk).kind = "group"
    /\ st_walk' = Tail(st_walk)
    /\ UNCHANGED <<st_input, st_server_spec, st_client_spec, comm_plan, st_pc,
                   st_scope, local_time_scales, candidate_datasets,
                   local_datetime_fields, st_failed, st_result>>
    /\ UNCHANGED beside_stringify

\* stringify_local_datetimes.rs 58-63: server_spec.to_task_scope()?
StServerScope ==
    /\ st_pc = "collect" /\ st_result = "running"
    /\ st_walk = <<>>
    /\ LET r == to_task_scope_result(st_server_spec)
       IN  IF r.ok
           THEN /\ st_scope' = r.scope
                /\ st_pc' = "stringify"
                /\ st_walk' = walk_data(st_server_spec)
                /\ UNCHANGED <<st_failed, st_result>>
           ELSE /\ StFail("server_scope")
                /\ UNCHANGED <<st_scope, st_pc, st_walk>>
    /\ UNCHANGED <<st_input, st_server_spec, st_client_spec, comm_plan,
                   local_time_scales, candidate_datasets, local_datetime_fields>>
    /\ UNCHANGED beside_stringify

\* stringify_local_datetimes.rs 64: the walk calls visit_data on a server
\* dataset; an Err ends the walk.
StStringifyVisitData ==
    /\ st_pc = "stringify" /\ st_result = "running"
    /\ st_walk # <<>>
    /\ LET v == Head(st_walk)
           r == stringify_visit_data(st_server_spec.data[v.scope][v.index],
                                     local_datetime_fields, st_scope, v.scope)
       IN  /\ st_server_spec' =
                  [st_server_spec EXCEPT !.data[v.scope][v.index] = r.data]
           /\ st_failed' = IF r.ok THEN st_failed ELSE st_failed \cup {"stringify"}
           /\ IF r.ok
              THEN /\ st_walk' = Tail(st_walk)
                   /\ UNCHANGED <<st_pc, st_result>>
              ELSE IF server_pass_continues(r.ok)
                   THEN /\ st_walk' = <<>>
                        /\ UNCHANGED <<st_pc, st_result>>
                   ELSE /\ st_result' = "Err"
                        /\ UNCHANGED <<st_pc, st_walk>>
    /\ UNCHANGED <<st_input, st_client_spec, comm_plan, st_scope,
                   local_time_scales, candidate_datasets, local_datetime_fields>>
    /\ UNCHANGED beside_stringify

\* stringify_local_datetimes.rs 67: the visitor of the client spec.
StBeginFormat ==
    /\ st_pc = "stringify" /\ st_result = "running"
    /\ st_walk = <<>>
    /\ st_pc' = "format"
    /\ st_walk' = walk_data(st_client_spec)
    /\ UNCHANGED <<st_input, st_server_spec, st_client_spec, comm_plan, st_scope,
                   local_time_scales, candidate_datasets, local_datetime_fields,
                   st_failed, st_result>>
    /\ UNCHANGED beside_stringify

\* stringify_local_datetimes.rs 68: the walk calls visit_data on a client
\* dataset. The Result of this walk is dropped; the visitor returns Ok always.
StFormatVisitData ==
    /\ st_pc = "format" /\ st_result = "running"
    /\ st_walk # <<>>
    /\ LET v == Head(st_walk)
       IN  st_client_spec' =
               [st_client_spec EXCEPT !.data[v.scope][v.index] =
                    format_visit_data(@, local_datetime_fields, v.scope)]
    /\ st_walk' = Tail(st_walk)
    /\ UNCHANGED <<st_input, st_server_spec, comm_plan, st_pc, st_scope,
                   local_time_scales, candidate_datasets, local_datetime_fields,
                   st_failed, st_result>>
    /\ UNCHANGED beside_stringify

\* stringify_local_datetimes.rs 70: Ok(())
StReturn ==
    /\ st_pc = "format" /\ st_result = "running"
    /\ st_walk = <<>>
    /\ st_result' = "Ok"
    /\ UNCHANGED <<st_input, st_server_spec, st_client_spec, comm_plan, st_pc,
                   st_scope, local_time_scales, candidate_datasets,
                   local_datetime_fields, st_walk, st_failed>>
    /\ UNCHANGED beside_stringify

NextStringify ==
    \/ StClientScope
    \/ StCollectTimeScales
    \/ StVisitNonGroupMark
    \/ StVisitGroupMark
    \/ StServerScope
    \/ StStringifyVisitData
    \/ StBeginFormat
    \/ StFormatVisitData
    \/ StReturn

--------------------------------------------------------------------------
\* The inputs of stringify_local_datetimes under study.

MaxMarks == 2   \* Most non-group marks in a chart.
MaxPrev == 2    \* Most transforms a dataset has on entry.

\* The transforms a dataset has on entry.
prev_transforms(n) ==
    [i \in 1..n |-> [kind |-> "filter", expr |-> "p" \o ToString(i), as |-> ""]]

st_data(name, source, n) ==
    [name |-> name, source |-> source, transform |-> prev_transforms(n)]

\* Encoding channels: a scaled plain field, an unscaled plain field, and a
\* scaled field that is not a plain name.
ScaledField(f) == [scale |-> Some("x"), field |-> Some([kind |-> "Field", name |-> f])]

ChannelLists ==
    {<<ScaledField("f")>>, <<ScaledField("g"), ScaledField("f")>>,
     <<[scale |-> None, field |-> Some([kind |-> "Field", name |-> "f"])]>>,
     <<[scale |-> Some("x"), field |-> Some([kind |-> "Object", name |-> "f"])]>>}

\* A non-group mark with its scope.
MarkKinds ==
    {[scope |-> s, from |-> Some("d"), channels |-> c] :
        s \in StScopes, c \in ChannelLists}
    \cup {[scope |-> s, from |-> None, channels |-> <<ScaledField("f")>>] :
            s \in StScopes}

\* The one or two marks of the charts whose datasets vary.
FewMarkKinds ==
    {[scope |-> <<>>, from |-> Some("d"),
      channels |-> <<ScaledField("g"), ScaledField("f")>>],
     [scope |-> <<0>>, from |-> Some("d"), channels |-> <<ScaledField("f")>>]}

\* The group mark reads dataset d and scales its field h.
GroupMark == [from |-> Some("d"), channels |-> <<ScaledField("h")>>]

\* The scale x of a scope: not declared, or declared with a type or without.
ScaleKinds == {"absent", "time", "utc", "untyped"}
scales_of(kind) ==
    CASE kind = "absent" -> <<>>
      [] kind = "untyped" -> <<[name |-> "x", type |-> None]>>
      [] OTHER -> <<[name |-> "x", type |-> Some(kind)]>>

\* Where dataset d is declared: not at all, on the client only, or on both
\* sides, and then the server sends it to the client.
DataKinds == {"absent", "client", "shared"}

\* `twice`: the side that declares d a second time at the root.
DataLayouts ==
    {[root |-> r, nested |-> n, twice |-> "none"] : r, n \in DataKinds}
    \cup {[root |-> "shared", nested |-> "absent", twice |-> t] :
            t \in {"client", "server"}}

FewDataLayouts ==
    {[root |-> "shared", nested |-> "absent", twice |-> "none"],
     [root |-> "client", nested |-> "shared", twice |-> "none"],
     [root |-> "shared", nested |-> "client", twice |-> "none"]}

\* A server dataset c that reads another dataset, or none.
Children ==
    {None} \cup {Some([scope |-> s, source |-> src]) :
                    s \in StScopes, src \in {"d", "zz"}}

layout_at(layout, s) == IF s = <<>> THEN layout.root ELSE layout.nested

twice_at(layout, side, s, n) ==
    IF s = <<>> /\ layout.twice = side THEN <<st_data("d", None, n)>> ELSE <<>>

client_data(layout, n) ==
    [s \in StScopes |->
        (IF layout_at(layout, s) \in {"client", "shared"}
         THEN <<st_data("d", None, n)>> ELSE <<>>)
        \o twice_at(layout, "client", s, n)]

server_data(layout, child, n) ==
    [s \in StScopes |->
        (IF layout_at(layout, s) = "shared"
         THEN <<st_data("d", None, n)>> ELSE <<>>)
        \o twice_at(layout, "server", s, n)
        \o (IF IsSome(child) /\ Unwrap(child).scope = s
            THEN <<st_data("c", Some(Unwrap(child).source), n)>> ELSE <<>>)]

\* The marks of a scope, in the order given.
marks_at(marks, s) ==
    LET picked == SelectSeq(marks, LAMBDA m : m.scope = s)
    IN  [i \in 1..Len(picked) |-> [from |-> picked[i].from,
                                   channels |-> picked[i].channels]]

\* comm_plan.server_to_client: the shared datasets, and a signal named d.
server_to_client_of(layout) ==
    {ScopedVar(new_data("d"), s) : s \in {t \in StScopes : layout_at(layout, t) = "shared"}}
    \cup {ScopedVar([ns |-> "signal", name |-> "d"], <<>>)}

StartStringify(layout, child, n, root_scale, nested_scale, marks) ==
    LET client == [data |-> client_data(layout, n),
                   scales |-> (<<>> :> scales_of(root_scale))
                                @@ (<<0>> :> scales_of(nested_scale)),
                   marks |-> [s \in StScopes |-> marks_at(marks, s)],
                   group |-> GroupMark]
        server == [data |-> server_data(layout, child, n),
                   scales |-> [s \in StScopes |-> <<>>],
                   marks |-> [s \in StScopes |-> <<>>],
                   group |-> [from |-> None, channels |-> <<>>]]
    IN  /\ st_input = [server |-> server, client |-> client]
        /\ st_server_spec = server
        /\ st_client_spec = client
        /\ comm_plan = [server_to_client |-> server_to_client_of(layout)]
        /\ st_pc = "client_scope"
        /\ st_scope = <<>>
        /\ local_time_scales = {}
        /\ candidate_datasets = {}
        /\ local_datetime_fields = <<>>
        /\ st_walk = <<>>
        /\ st_failed = {}
        /\ st_result = "running"

\* Charts with many marks and scales over a few layouts of the datasets, and
\* charts with few marks over every layout, pipeline length and child.
InitStringify ==
    /\ ExtractIdle /\ MemberIdle /\ FnIdle /\ PipelineIdle /\ BinIdle
    /\ \/ \E k \in 0..MaxMarks : \E marks \in [1..k -> MarkKinds] :
          \E layout \in FewDataLayouts : \E rs, ns \in ScaleKinds :
             StartStringify(layout, None, 1, rs, ns, marks)
       \/ \E mark \in FewMarkKinds : \E layout \in DataLayouts :
          \E child \in Children : \E n \in 0..MaxPrev :
          \E sc \in {<<"time", "absent">>, <<"utc", "time">>} :
             StartStringify(layout, child, n, sc[1], sc[2], <<mark>>)

SpecStringify == InitStringify /\ [][NextStringify]_vars

--------------------------------------------------------------------------
\* compile_member (member.rs).

\* Expression: the parsed nodes a member expression is made of.
Literal(value) == [type |-> "Literal", value |-> value]
Identifier(name) == [type |-> "Identifier", name |-> name]
BinaryPlus(left, right) == [type |-> "BinaryExpression", left |-> left, right |-> right]
MemberExpression(object, property, computed) ==
    [type |-> "MemberExpression", object |-> object, property |-> property,
     computed |-> computed]

\* ScalarValue. A number is held as its count of halves, so that 1.5 is 3.
Utf8(s) == [t |-> "Utf8", s |-> s, h |-> 0]
Float64(h) == [t |-> "Float64", s |-> "", h |-> h]
Boolean(b) == [t |-> "Boolean", s |-> "", h |-> IF b THEN 1 ELSE 0]
\* A list or struct value, of which the compiler reads the type only.
Opaque(t) == [t |-> t, s |-> "", h |-> 0]

\* Expr: the compiled expressions.
col(name) == [ir |-> "Column", name |-> name, value |-> Opaque("Null"), args |-> <<>>]
lit(value) == [ir |-> "Literal", name |-> "", value |-> value, args |-> <<>>]
binary_plus(l, r) == [ir |-> "BinaryExpr", name |-> "+", value |-> Opaque("Null"),
                      args |-> <<l, r>>]
scalar_udf(name, arg) == [ir |-> "ScalarUDF", name |-> name, value |-> Opaque("Null"),
                          args |-> <<arg>>]

\* Result<Expr>, and the abort of todo!().
Ok(expr) == [kind |-> "Ok", expr |-> expr, error |-> ""]
Err(error) == [kind |-> "Err", expr |-> <<>>, error |-> error]
Panic == [kind |-> "Panic", expr |-> <<>>, error |-> "not yet implemented"]
\* compile_member has not returned.
Pending == [kind |-> "Pending", expr |-> <<>>, error |-> ""]

\* The fields of the one struct type under study.
StructFields == <<"bar", "length">>

is_numeric_datatype(t) == t = "Float64"

\* Display of a number: the shortest decimal, so 1.0 is "1" and 1.5 is "1.5".
number_to_string(h) ==
    LET a == IF h < 0 THEN -h ELSE h
        digits == ToString(a \div 2) \o (IF a % 2 = 1 THEN ".5" ELSE "")
    IN  IF h < 0 THEN "-" \o digits ELSE digits

\* ScalarValue::to_string
to_string(value) ==
    CASE value.t = "Utf8" -> value.s
      [] value.t = "Float64" -> number_to_string(value.h)
      [] value.t = "Boolean" -> IF value.h = 1 THEN "true" ELSE "false"
      [] OTHER -> "[" \o value.t \o "]"

\* The numbers the strings under study can spell, in halves.
Spelled == -4..8

\* str::parse::<f64>: the number a string spells, if it spells one.
parse_f64(s) ==
    IF \E h \in Spelled : number_to_string(h) = s
    THEN Some(CHOOSE h \in Spelled : number_to_string(h) = s)
    ELSE None

\* cast(.., Int64) then `as usize`: the fraction is cut off; a negative value
\* wraps, and is written here as the negative number with the same bits.
int64_as_usize(h) == IF h < 0 THEN -((-h) \div 2) ELSE h \div 2

\* f64 `as usize`: the fraction is cut off and a negative value becomes 0.
f64_as_usize(h) == IF h < 0 THEN 0 ELSE h \div 2

\* expr.data_type(schema): the type of a compiled expression.
RECURSIVE data_type(_, _)
data_type(expr, schema) ==
    CASE expr.ir = "Literal" -> Some(expr.value.t)
      [] expr.ir = "Column" ->
            IF expr.name \in DOMAIN schema THEN Some(schema[expr.name]) ELSE None
      [] expr.ir = "BinaryExpr" -> data_type(expr.args[1], schema)
      [] OTHER -> None

\* Expr::eval_to_scalar: the value of an expression that reads no column.
RECURSIVE eval_to_scalar(_)
eval_to_scalar(expr) ==
    CASE expr.ir = "Literal" -> Some(expr.value)
      [] expr.ir = "BinaryExpr" ->
            LET l == eval_to_scalar(expr.args[1])
                r == eval_to_scalar(expr.args[2])
            IN  IF l = None \/ r = None THEN None
                ELSE IF Unwrap(l).t = "Utf8"
                     THEN Some(Utf8(Unwrap(l).s \o Unwrap(r).s))
                     ELSE Some(Float64(Unwrap(l).h + Unwrap(r).h))
      [] OTHER -> None

\* make_get_object_member_udf
make_get_object_member_udf(object_type, property_name) ==
    IF object_type # "Struct"
    THEN Err("CompilationError")
    ELSE IF \E i \in 1..Len(StructFields) : StructFields[i] = property_name
         THEN Ok("get[" \o property_name \o "]")
         ELSE Err("CompilationError")

\* make_get_element_udf: the name of the accessor.
make_get_element_udf(index) == "get[" \o ToString(index) \o "]"

\* member.rs 33-58 with the property of `datum[name]` read as that of
\* `datum.name`.
property_string_unfolded(node, compiled) ==
    IF node.property.type = "Identifier"
    THEN [ok |-> TRUE, string |-> node.property.name, index |-> None, error |-> ""]
    ELSE IF ~node.computed \/ compiled.kind # "Ok"
            \/ eval_to_scalar(compiled.expr) = None
         THEN [ok |-> FALSE, string |-> "", index |-> None,
               error |-> "CompilationError"]
         ELSE [ok |-> TRUE, string |-> to_string(Unwrap(eval_to_scalar(compiled.expr))),
               index |-> None, error |-> ""]

\* member.rs 33-58 with the error of compiling the property put aside: the
\* property then counts as the empty name.
property_string_error_dropped(node, compiled) ==
    IF node.computed
    THEN IF compiled.kind # "Ok" \/ eval_to_scalar(compiled.expr) = None
         THEN [ok |-> TRUE, string |-> "", index |-> None, error |-> ""]
         ELSE [ok |-> TRUE, string |-> to_string(Unwrap(eval_to_scalar(compiled.expr))),
               index |-> None, error |-> ""]
    ELSE IF node.property.type = "Identifier"
         THEN [ok |-> TRUE, string |-> node.property.name, index |-> None, error |-> ""]
         ELSE [ok |-> FALSE, string |-> "", index |-> None,
               error |-> "CompilationError"]

\* member.rs 33-58: the string form of the property and the element index it
\* spells; `compiled` is the Result of compiling the property, whose error
\* the `?` returns.
property_string(node, compiled) ==
    IF node.computed
    THEN IF compiled.kind # "Ok"
         THEN [ok |-> FALSE, string |-> "", index |-> None, error |-> compiled.error]
         ELSE LET evaluated_property == eval_to_scalar(compiled.expr)
              IN  IF evaluated_property = None
                  THEN [ok |-> FALSE, string |-> "", index |-> None,
                        error |-> "CompilationError"]
                  ELSE LET value == Unwrap(evaluated_property)
                           prop_str == to_string(value)
                       IN  [ok |-> TRUE, string |-> prop_str, error |-> "",
                            index |->
                               IF is_numeric_datatype(value.t)
                               THEN Some(int64_as_usize(value.h))
                               ELSE IF IsSome(parse_f64(prop_str))
                                    THEN Some(f64_as_usize(Unwrap(parse_f64(prop_str))))
                                    ELSE None]
    ELSE IF node.property.type = "Identifier"
         THEN [ok |-> TRUE, string |-> node.property.name, index |-> None, error |-> ""]
         ELSE [ok |-> FALSE, string |-> "", index |-> None,
               error |-> "CompilationError"]

\* member.rs 70-107: the member of an object that is not `datum`;
\* `compiled_object` is the Result of compiling the object.
member_of_object(compiled_object, prop, schema) ==
    IF compiled_object.kind # "Ok" THEN compiled_object
    ELSE LET dtype == data_type(compiled_object.expr, schema)
         IN  IF dtype = None THEN Err("CompilationError")
             ELSE IF Unwrap(dtype) = "Struct"
                  THEN LET udf == make_get_object_member_udf(Unwrap(dtype), prop.string)
                       IN  IF udf.kind = "Ok"
                           THEN Ok(scalar_udf(udf.expr, compiled_object.expr))
                           ELSE udf
                  ELSE IF prop.string = "length" THEN Panic
                  ELSE IF Unwrap(dtype) \in {"List", "FixedSizeList", "Utf8", "LargeUtf8"}
                       THEN IF IsSome(prop.index)
                            THEN Ok(scalar_udf(make_get_element_udf(Unwrap(prop.index)),
                                               compiled_object.expr))
                            ELSE Err("CompilationError")
                       ELSE Err("CompilationError")

\* compile: an identifier is a signal of the scope, `+` adds two numbers or
\* joins two strings, and a member expression goes to compile_member.
RECURSIVE compile(_, _, _), compile_member(_, _, _)
compile(expr, config, schema) ==
    CASE expr.type = "Literal" -> Ok(lit(expr.value))
      [] expr.type = "Identifier" ->
            IF expr.name \in DOMAIN config.signal_scope
            THEN Ok(lit(config.signal_scope[expr.name]))
            ELSE Err("CompilationError")
      [] expr.type = "BinaryExpression" ->
            LET l == compile(expr.left, config, schema)
                r == compile(expr.right, config, schema)
            IN  IF l.kind # "Ok" THEN l
                ELSE IF r.kind # "Ok" THEN r
                ELSE LET lt == data_type(l.expr, schema)
                         rt == data_type(r.expr, schema)
                     IN  IF lt # None /\ lt = rt /\ Unwrap(lt) \in {"Utf8", "Float64"}
                         THEN Ok(binary_plus(l.expr, r.expr))
                         ELSE Err("CompilationError")
      [] OTHER -> compile_member(expr, config, schema)

\* compile_member
compile_member(node, config, schema) ==
    LET prop == property_string(node,
                    IF node.computed THEN compile(node.property, config, schema)
                    ELSE Err(""))
    IN  IF ~prop.ok THEN Err(prop.error)
        ELSE IF node.object.type = "Identifier" /\ node.object.name = "datum"
             THEN Ok(col(prop.string))
             ELSE member_of_object(compile(node.object, config, schema), prop, schema)

\* The signals of the compilation config.
SignalScope ==
    ("sel" :> Utf8("bar")) @@ ("idx" :> Float64(2)) @@ ("word" :> Utf8("abc"))
        @@ ("items" :> Opaque("List")) @@ ("obj" :> Opaque("Struct"))

Configs == {[signal_scope |-> SignalScope], [signal_scope |-> <<>>]}

DataTypes == {"Utf8", "LargeUtf8", "List", "FixedSizeList", "Struct", "Float64",
              "Boolean"}

\* A schema without columns, and the schemas with the one column foo.
Schemas == {<<>>} \cup {("foo" :> t) : t \in DataTypes}

DatumFoo == MemberExpression(Identifier("datum"), Identifier("foo"), FALSE)

\* Properties that are names, constants, sums of constants, and expressions
\* that read a column.
PropertyExprs ==
    {Identifier("foo"), Identifier("sel"), Identifier("idx"), Identifier("length"),
     Literal(Utf8("bar")), Literal(Utf8("1")), Literal(Float64(2)),
     Literal(Float64(3)), Literal(Float64(-2)), Literal(Boolean(TRUE)),
     BinaryPlus(Literal(Utf8("b")), Literal(Utf8("ar"))),
     BinaryPlus(Literal(Float64(2)), Literal(Float64(2))),
     BinaryPlus(Literal(Float64(2)), Literal(Utf8("x"))),
     DatumFoo,
     BinaryPlus(Literal(Utf8("b")), DatumFoo)}

ObjectExprs ==
    {Identifier("datum"), Identifier("word"), Identifier("items"),
     Identifier("obj"), Identifier("idx"), Identifier("nope"), DatumFoo}

InitMember ==
    /\ m_node \in {MemberExpression(o, p, c) :
                      o \in ObjectExprs, p \in PropertyExprs, c \in BOOLEAN}
    /\ m_config \in Configs
    /\ m_schema \in Schemas
    /\ m_result = Pending
    /\ ExtractIdle /\ StIdle /\ FnIdle /\ PipelineIdle /\ BinIdle

CompileMember ==
    /\ m_result = Pending
    /\ m_result' = compile_member(m_node, m_config, m_schema)
    /\ UNCHANGED <<m_node, m_config, m_schema>>
    /\ UNCHANGED beside_member

NextMember == CompileMember

SpecMember == InitMember /\ [][NextMember]_vars

--------------------------------------------------------------------------
\* make_get_element_udf (member.rs 154-253): the evaluation of get[index].
\*
\* A string is the sequence of its UTF-8 bytes: "a" and "b" take one byte,
\* "é" takes the two bytes "é1" "é2". A list is the sequence of its elements.

MaxIndex == 2   \* Largest element index.
MaxRows == 2    \* Most rows of an array.

\* A value of a type, and the null of a type.
Val(t, v) == [t |-> t, null |-> FALSE, v |-> v]
Null(t) == [t |-> t, null |-> TRUE, v |-> <<>>]

\* The type of the elements of the lists under study.
ElementType == "Utf8"

\* ColumnarValue::Scalar and ColumnarValue::Array
Scalar(value) == [form |-> "Scalar", values |-> <<value>>]
Array(values) == [form |-> "Array", values |-> values]

\* `index as usize` for the i32 index: a negative index becomes a number
\* above every length, for which None stands here.
index_as_usize(index) == IF index < 0 THEN None ELSE Some(index)

\* Vec::get(index as usize) on the elements of a scalar list.
list_get(arr, index) ==
    LET at == index_as_usize(index)
    IN  IF IsSome(at) /\ Unwrap(at) < Len(arr)
        THEN Val(ElementType, <<arr[Unwrap(at) + 1]>>)
        ELSE Null(ElementType)

\* A byte offset of the string is a character boundary.
is_char_boundary(s, at) == at = Len(s) \/ (at < Len(s) /\ s[at + 1] # "é2")

\* str::get((index as usize)..((index + 1) as usize)): the bytes of the
\* range when it lies in the string and both its ends are character
\* boundaries.
str_get(s, index) ==
    LET from == index_as_usize(index)
        to == index_as_usize(index + 1)
    IN  IF /\ IsSome(from) /\ IsSome(to)
           /\ Unwrap(to) <= Len(s)
           /\ is_char_boundary(s, Unwrap(from))
           /\ is_char_boundary(s, Unwrap(to))
        THEN Val("Utf8", SubSeq(s, Unwrap(from) + 1, Unwrap(to)))
        ELSE Null("Utf8")

\* kernels::substring::substring(array, index, Some(1)) on one row: the byte
\* range is cut to the row, a negative start counts from the end, and the
\* row stays non-null.
substring(s, t, start) ==
    LET new_start == IF start >= 0
                     THEN (IF start < Len(s) THEN start ELSE Len(s))
                     ELSE (IF Len(s) + start > 0 THEN Len(s) + start ELSE 0)
        new_length == IF Len(s) - new_start < 1 THEN Len(s) - new_start ELSE 1
    IN  Val(t, SubSeq(s, new_start + 1, new_start + new_length))

\* value_offsets of a ListArray: where row r starts in the flat values.
RECURSIVE offset(_, _)
offset(rows, r) == IF r = 0 THEN 0 ELSE offset(rows, r - 1) + Len(rows[r].v)

\* array.values(): the elements of all rows in one buffer.
RECURSIVE flat_values(_)
flat_values(rows) ==
    IF rows = <<>> THEN <<>> ELSE Head(rows).v \o flat_values(Tail(rows))

\* member.rs 209-217: the take index of row r, None for a null.
take_index(rows, r, index) ==
    LET el_start == offset(rows, r - 1)
        el_stop == offset(rows, r)
    IN  IF el_start + index < el_stop THEN Some(el_start + index) ELSE None

\* member.rs 155-232: get_fn. kernels::take::take fails on a negative index
\* and the unwrap() then aborts.
get_fn(index, arg) ==
    IF arg.form = "Scalar"
    THEN LET value == arg.values[1]
         IN  IF value.null THEN Scalar(Null("Float64"))
             ELSE IF value.t = "List" THEN Scalar(list_get(value.v, index))
             ELSE IF value.t \in {"Utf8", "LargeUtf8"}
                  THEN Scalar(str_get(value.v, index))
                  ELSE Scalar(Null("Float64"))
    ELSE LET rows == arg.values
             t == IF rows = <<>> THEN "Utf8" ELSE rows[1].t
         IN  IF t \in {"Utf8", "LargeUtf8"}
             THEN Array([r \in 1..Len(rows) |-> substring(rows[r].v, t, index)])
             ELSE IF t = "List"
                  THEN IF \E r \in 1..Len(rows) :
                            /\ IsSome(take_index(rows, r, index))
                            /\ Unwrap(take_index(rows, r, index)) < 0
                       THEN [form |-> "Panic", values |-> <<>>]
                       ELSE Array([r \in 1..Len(rows) |->
                                LET at == take_index(rows, r, index)
                                IN  IF IsSome(at)
                                    THEN Val(ElementType,
                                             <<flat_values(rows)[Unwrap(at) + 1]>>)
                                    ELSE Null(ElementType)])
                  ELSE Array([r \in 1..Len(rows) |-> Null("Float64")])

\* member.rs 233-246: return_type of get[index], given the argument's type.
return_type(dtype) ==
    IF dtype = "Utf8" THEN [kind |-> "Ok", t |-> "Utf8"]
    ELSE IF dtype = "List" THEN [kind |-> "Ok", t |-> ElementType]
    ELSE [kind |-> "Err", t |-> "Unsupported datatype for get index"]

\* The data type of the argument.
arg_type(arg) == arg.values[1].t

\* The strings and lists under study.
Strings == {<<>>, <<"a">>, <<"a", "b">>, <<"é1", "é2">>, <<"é1", "é2", "a">>,
            <<"a", "é1", "é2">>}
Lists == {<<>>, <<"x">>, <<"x", "y">>}

\* The values of a type.
ValuesOf(t) ==
    {Val(t, v) : v \in IF t \in {"List", "FixedSizeList"} THEN Lists ELSE Strings}

\* The types compile_member builds get[index] for; a scalar is a list or a
\* string, or the null of one.
GetTypes == {"List", "FixedSizeList", "Utf8", "LargeUtf8"}
ScalarTypes == {"List", "Utf8", "LargeUtf8"}

InitGet ==
    /\ \E index \in -1..MaxIndex, t \in GetTypes :
         \/ /\ t \in ScalarTypes
            /\ \E v \in ValuesOf(t) \cup {Null(t)} :
                  fn_args = [index |-> index, arg |-> Scalar(v)]
         \/ \E n \in 1..MaxRows : \E rows \in [1..n -> ValuesOf(t)] :
               fn_args = [index |-> index, arg |-> Array(rows)]
    /\ fn_ret = NotReturned
    /\ ExtractIdle /\ StIdle /\ MemberIdle /\ PipelineIdle /\ BinIdle

\* The accessor is applied to its argument.
EvalGet ==
    /\ ~fn_ret.done
    /\ fn_ret' = [done |-> TRUE,
                  value |-> get_fn(fn_args.index, fn_args.arg),
                  return_type |-> return_type(arg_type(fn_args.arg))]
    /\ UNCHANGED fn_args
    /\ UNCHANGED beside_fn

NextGet == EvalGet

SpecGet == InitGet /\ [][NextGet]_vars

----------------------------------------------------------------------------
\* The impute transform (transform/impute.rs).  A dataframe is its column
\* names in schema order and its rows in order; a row maps column names to
\* values; NULL is the SQL null.

MaxInputRows == 3   \* Most rows of an imputed dataframe.

NULL == "NULL"

DataFrame(columns, rows) == [columns |-> columns, rows |-> rows]

\* The field left as it is.
fill_nothing(row, field, value) == row[field]

\* when(col(field).is_not_null(), col(field)).otherwise(lit(value))
fill(row, field, value) == IF row[field] # NULL THEN row[field] ELSE value

\* when(col(field).is_not_null(), NULL).otherwise(lit(true))
impute_flag(row, field) == IF row[field] # NULL THEN NULL ELSE "true"

\* The projection of zero_groupby_sql: the field filled, others as they are.
zero_groupby_sql(tx, dataframe, value) ==
    DataFrame(dataframe.columns,
              [i \in 1..Len(dataframe.rows) |->
                  [c \in SeqToSet(dataframe.columns) |->
                      IF c = tx.field
                      THEN fill(dataframe.rows[i], tx.field, value)
                      ELSE dataframe.rows[i][c]]])

\* SELECT DISTINCT column.
distinct(dataframe, column) ==
    {dataframe.rows[i][column] : i \in 1..Len(dataframe.rows)}

\* The final selection: the original columns with the field filled, and
\* the "_impute" column.
select_columns(original_columns, row, tx, value) ==
    [c \in SeqToSet(original_columns) \cup {"_impute"} |->
        IF c = "_impute" THEN impute_flag(row, tx.field)
        ELSE IF c = tx.field THEN fill(row, tx.field, value)
        ELSE row[c]]

\* A set as a sequence, in one order or in the opposite one: rows whose
\* __row_number is null sort last, in an order the query does not fix.
RECURSIVE enumerate(_)
enumerate(S) ==
    IF S = {} THEN <<>>
    ELSE LET x == CHOOSE x \in S : TRUE IN <<x>> \o enumerate(S \ {x})

nulls_last(S, rev) ==
    LET e == enumerate(S)
    IN  IF rev THEN [i \in 1..Len(e) |-> e[Len(e) + 1 - i]] ELSE e

\* combos LEFT OUTER JOIN the numbered input on (key, group), ordered by
\* __row_number with nulls last, then the final selection.  A null never
\* equals anything in the join condition.
left_join_select(tx, dataframe, value, combos, rev) ==
    LET groupby == tx.groupby[1]
        rows == dataframe.rows
        pair(row) == <<row[tx.key], row[groupby]>>
        joins(row) == /\ row[tx.key] # NULL /\ row[groupby] # NULL
                      /\ pair(row) \in combos
        numbered == [i \in 1..Len(rows) |-> rows[i]]
        matched == SelectSeq(numbered, joins)
        unmatched == {c \in combos : \A i \in 1..Len(rows) :
                                        ~(joins(rows[i]) /\ pair(rows[i]) = c)}
        null_row(c) == [name \in SeqToSet(dataframe.columns) |->
                           IF name = tx.key THEN c[1]
                           ELSE IF name = groupby THEN c[2]
                           ELSE NULL]
        tail == nulls_last(unmatched, rev)
        joined == matched \o [i \in 1..Len(tail) |-> null_row(tail[i])]
    IN  DataFrame(dataframe.columns \o <<"_impute">>,
                  [i \in 1..Len(joined) |->
                      select_columns(dataframe.columns, joined[i], tx, value)])

\* The keys and groups are the distinct values that are not null.
single_groupby_sql(tx, dataframe, value, rev) ==
    LET _key == distinct(dataframe, tx.key) \ {NULL}
        _group == distinct(dataframe, tx.groupby[1]) \ {NULL}
    IN  left_join_select(tx, dataframe, value, _key \X _group, rev)

\* The keys and groups are the groups of an aggregation, null among them.
single_groupby(tx, dataframe, value, rev) ==
    LET key_df == distinct(dataframe, tx.key)
        groupby_df == distinct(dataframe, tx.groupby[1])
    IN  left_join_select(tx, dataframe, value, key_df \X groupby_df, rev)

ImputeOk(dataframe, via) ==
    [ok |-> TRUE, dataframe |-> dataframe, error |-> "", via |-> via]
ImputeErr(error) ==
    [ok |-> FALSE, dataframe |-> <<>>, error |-> error, via |-> "eval"]

\* Impute::eval.
impute_eval(tx, dataframe, rev) ==
    CASE Len(tx.groupby) = 0 ->
            ImputeOk(zero_groupby_sql(tx, dataframe, tx.value), "zero_groupby_sql")
      [] Len(tx.groupby) = 1 ->
            ImputeOk(single_groupby_sql(tx, dataframe, tx.value, rev),
                     "single_groupby_sql")
      [] OTHER ->
            ImputeErr("Expected zero or one groupby columns to impute")

\* The inputs: columns k, g, v; the field is v, the key is k.
ImputeColumns == <<"k", "g", "v">>
ImputeRows == [k : {"1", "2", NULL}, g : {"a", "b", NULL}, v : {"7", NULL}]
Groupbys == {<<>>, <<"g">>, <<"g", "k">>}
FillValue == "0"

InitImpute ==
    /\ \E n \in 0..MaxInputRows, groupby \in Groupbys :
        \E rows \in [1..n -> ImputeRows] :
            fn_args = [tx |-> [field |-> "v", key |-> "k", groupby |-> groupby,
                               value |-> FillValue],
                       dataframe |-> DataFrame(ImputeColumns, rows)]
    /\ fn_ret = NotReturned
    /\ ExtractIdle /\ StIdle /\ MemberIdle /\ PipelineIdle /\ BinIdle

\* Impute::eval is called.
EvalImpute ==
    /\ ~fn_ret.done
    /\ \E rev \in BOOLEAN :
          fn_ret' = Returned(impute_eval(fn_args.tx, fn_args.dataframe, rev))
    /\ UNCHANGED fn_args
    /\ UNCHANGED beside_fn

\* single_groupby is called on a dataframe.
EvalSingleGroupby ==
    /\ ~fn_ret.done
    /\ Len(fn_args.tx.groupby) = 1
    /\ \E rev \in BOOLEAN :
          fn_ret' = Returned(ImputeOk(
              single_groupby(fn_args.tx, fn_args.dataframe, fn_args.tx.value, rev),
              "single_groupby"))
    /\ UNCHANGED fn_args
    /\ UNCHANGED beside_fn

NextImpute == EvalImpute \/ EvalSingleGroupby

SpecImpute == InitImpute /\ [][NextImpute]_vars

----------------------------------------------------------------------------
\* Aggregate::new (transform/aggregate.rs).  A field of the transform spec
\* is null or an object with a name and an optional alias.

MaxFields == 2   \* Most entries of fields, of ops; `as` may hold one more.

Field(name, as_) == [field |-> name, as_ |-> as_]

\* f.as_ref().map(|f| f.field()).unwrap_or_default()
field_name(f) == IF IsSome(f) THEN Unwrap(f).field ELSE ""

\* f.as_ref().and_then(|f| f.as_()).unwrap_or_default()
field_alias(f) == IF IsSome(f) /\ IsSome(Unwrap(f).as_) THEN Unwrap(Unwrap(f).as_) ELSE ""

\* AggregateOpSpec::X => AggregateOp::X as i32
op_as_i32(op) == [enum |-> "AggregateOp", variant |-> op]

\* for (i, as_) in as_.iter().enumerate(): aliases[i] = as_ when it is
\* Some; an index past the end of aliases panics.
RECURSIVE overwrite_aliases(_, _, _)
overwrite_aliases(aliases, as_, i) ==
    IF i > Len(as_) THEN [panic |-> FALSE, aliases |-> aliases]
    ELSE IF ~IsSome(as_[i]) THEN overwrite_aliases(aliases, as_, i + 1)
    ELSE IF i > Len(aliases) THEN [panic |-> TRUE, aliases |-> aliases]
    ELSE overwrite_aliases([aliases EXCEPT ![i] = Unwrap(as_[i])], as_, i + 1)

aggregate_new(transform) ==
    LET fields == [i \in 1..Len(transform.fields) |-> field_name(transform.fields[i])]
        groupby == [i \in 1..Len(transform.groupby) |-> transform.groupby[i].field]
        initial == [i \in 1..Len(transform.fields) |-> field_alias(transform.fields[i])]
        as_ == IF IsSome(transform.as_) THEN Unwrap(transform.as_) ELSE <<>>
        overwritten == overwrite_aliases(initial, as_, 1)
        ops == [i \in 1..Len(transform.ops) |-> op_as_i32(transform.ops[i])]
    IN  IF overwritten.panic
        THEN [kind |-> "Panic", groupby |-> <<>>, fields |-> <<>>,
              ops |-> <<>>, aliases |-> <<>>]
        ELSE [kind |-> "Ok", groupby |-> groupby, fields |-> fields,
              ops |-> ops, aliases |-> overwritten.aliases]

\* The inputs.
FieldSpecs == {None, Some(Field("x", None)), Some(Field("y", Some("fy")))}
AsEntries == {None, Some("a"), Some("b")}
OpSpecs == {"Count", "Sum"}

InitAggregate ==
    /\ \E nf \in 0..MaxFields, no \in 0..MaxFields, na \in 0..(MaxFields + 1) :
        \E fields \in [1..nf -> FieldSpecs], ops \in [1..no -> OpSpecs],
           entries \in [1..na -> AsEntries], given \in BOOLEAN,
           groupby \in {<<>>, <<Field("g", None)>>} :
            /\ given \/ na = 0
            /\ fn_args = [fields |-> fields, ops |-> ops, groupby |-> groupby,
                          as_ |-> IF given THEN Some(entries) ELSE None]
    /\ fn_ret = NotReturned
    /\ ExtractIdle /\ StIdle /\ MemberIdle /\ PipelineIdle /\ BinIdle

\* Aggregate::new is called.
NewAggregate ==
    /\ ~fn_ret.done
    /\ fn_ret' = Returned(aggregate_new(fn_args))
    /\ UNCHANGED fn_args
    /\ UNCHANGED beside_fn

NextAggregate == NewAggregate

SpecAggregate == InitAggregate /\ [][NextAggregate]_vars

----------------------------------------------------------------------------
\* TransformPipeline::call (transform/pipeline.rs) over Transform::eval
\* (transform/mod.rs).  A dataframe is the chain of the query nodes built
\* so far; a signal scope maps signal names to values.

MaxPipeline == 3   \* Most transforms of a pipeline that is called.

\* tx.output_signals()
pl_output_signals(tx) == IF tx.kind = "Extent" THEN <<tx.signal>> ELSE <<>>

EvalOk(dataframe, values) ==
    [ok |-> TRUE, dataframe |-> dataframe, values |-> values, error |-> ""]
EvalErr(error) ==
    [ok |-> FALSE, dataframe |-> <<>>, values |-> <<>>, error |-> error]

\* Transform::eval: the eval of the transform's kind.  An extent emits one
\* value, computed from its input; a filter reads a signal of the scope and
\* fails when the scope has none of that name; an impute with two groupby
\* columns fails; a formula adds its node.
transform_eval(tx, dataframe, config) ==
    CASE tx.kind = "Extent" ->
            EvalOk(Append(dataframe, [kind |-> "Extent", with |-> ""]),
                   <<"extent" \o ToString(Len(dataframe))>>)
      [] tx.kind = "Filter" ->
            IF tx.signal \in DOMAIN config.signal_scope
            THEN EvalOk(Append(dataframe,
                               [kind |-> "Filter",
                                with |-> config.signal_scope[tx.signal]]),
                        <<>>)
            ELSE EvalErr("No signal named " \o tx.signal)
      [] tx.kind = "Impute" ->
            EvalErr("Expected zero or one groupby columns to impute")
      [] OTHER ->
            EvalOk(Append(dataframe, [kind |-> tx.kind, with |-> ""]), <<>>)

\* The scope left as it is.
scope_unchanged(scope, name, val) == scope

\* HashMap::insert
scope_insert(scope, name, val) ==
    [n \in DOMAIN scope \cup {name} |-> IF n = name THEN val ELSE scope[n]]

\* for (name, val) in names.iter().zip(values): insert into both maps.
RECURSIVE insert_signals(_, _, _)
insert_signals(scope, names, values) ==
    IF names = <<>> \/ values = <<>> THEN scope
    ELSE insert_signals(scope_insert(scope, Head(names), Head(values)),
                        Tail(names), Tail(values))

NoSignals == [n \in {} |-> ""]

\* The inputs.
PlTransforms ==
    {[kind |-> "Formula", signal |-> ""], [kind |-> "Extent", signal |-> "e"],
     [kind |-> "Extent", signal |-> "f"], [kind |-> "Filter", signal |-> "e"],
     [kind |-> "Impute", signal |-> ""]}
CallerScopes == {NoSignals, [n \in {"e"} |-> "caller"]}

\* The call is entered: result_df is the caller's dataframe, result_signals
\* is empty, config is a clone of the caller's.
InitPipeline ==
    /\ \E n \in 0..MaxPipeline, scope \in CallerScopes :
        \E transforms \in [1..n -> PlTransforms] :
            fn_args = [transforms |-> transforms,
                       dataframe |-> <<[kind |-> "Source", with |-> ""]>>,
                       config |-> [signal_scope |-> scope]]
    /\ fn_ret = NotReturned
    /\ pl_result_df = fn_args.dataframe
    /\ pl_result_signals = NoSignals
    /\ pl_config = fn_args.config
    /\ pl_calls = <<>>
    /\ ExtractIdle /\ StIdle /\ MemberIdle /\ BinIdle

\* The transform the loop is at, and what its call gives.
pl_at == Len(pl_calls) + 1
pl_tx == fn_args.transforms[pl_at]
pl_tx_result == transform_eval(pl_tx, pl_result_df, pl_config)
pl_call == [tx |-> pl_at, dataframe |-> pl_result_df, config |-> pl_config]

\* One turn of the loop: the transform is called and succeeds.
CallTransform ==
    /\ ~fn_ret.done
    /\ pl_at <= Len(fn_args.transforms)
    /\ pl_tx_result.ok
    /\ pl_calls' = Append(pl_calls, pl_call)
    /\ pl_result_df' = pl_tx_result.dataframe
    /\ pl_result_signals' =
          insert_signals(pl_result_signals, pl_output_signals(pl_tx),
                         pl_tx_result.values)
    /\ pl_config' =
          [pl_config EXCEPT !.signal_scope =
              insert_signals(pl_config.signal_scope, pl_output_signals(pl_tx),
                             pl_tx_result.values)]
    /\ UNCHANGED fn_vars
    /\ UNCHANGED beside_pipeline

\* The transform is called and fails: `?` returns its error.
CallTransformFails ==
    /\ ~fn_ret.done
    /\ pl_at <= Len(fn_args.transforms)
    /\ ~pl_tx_result.ok
    /\ pl_calls' = Append(pl_calls, pl_call)
    /\ fn_ret' = Returned([ok |-> FALSE, error |-> pl_tx_result.error,
                           dataframe |-> <<>>, signals |-> NoSignals])
    /\ UNCHANGED <<fn_args, pl_result_df, pl_result_signals, pl_config>>
    /\ UNCHANGED beside_pipeline

\* The loop is over: Ok((result_df, result_signals)).
ReturnPipeline ==
    /\ ~fn_ret.done
    /\ pl_at > Len(fn_args.transforms)
    /\ fn_ret' = Returned([ok |-> TRUE, error |-> "",
                           dataframe |-> pl_result_df,
                           signals |-> pl_result_signals])
    /\ UNCHANGED <<fn_args, pl_vars>>
    /\ UNCHANGED beside_pipeline

NextPipeline == CallTransform \/ CallTransformFails \/ ReturnPipeline

SpecPipeline == InitPipeline /\ [][NextPipeline]_vars

----------------------------------------------------------------------------
\* SQL dialects (dialect/mod.rs): the dialect records, the transformers,
\* and the emission of an expression for a dialect.

\* Expressions.
Column(name) == [ir |-> "Column", name |-> name]
Number(n) == [ir |-> "Literal", value |-> n]
BinaryExpr(left, op, right) ==
    [ir |-> "BinaryExpr", left |-> left, op |-> op, right |-> right]
ScalarFunction(name, args) == [ir |-> "ScalarFunction", name |-> name, args |-> args]

\* SQL syntax trees.
SqlIdentifier(value) == [sql |-> "Identifier", value |-> value]
SqlNumber(text) == [sql |-> "Value", number |-> text]
SqlFunction(name, args) == [sql |-> "Function", name |-> name, args |-> args]
SqlCast(expr, dtype) == [sql |-> "Cast", expr |-> expr, data_type |-> dtype]
SqlBinaryOp(left, op, right) ==
    [sql |-> "BinaryOp", left |-> left, op |-> op, right |-> right]

SqlOk(sql) == [ok |-> TRUE, sql |-> sql, error |-> ""]
SqlErr(error) == [ok |-> FALSE, sql |-> <<>>, error |-> error]

\* The transformers.
ModulusOpToFunction == [t |-> "ModulusOpToFunction"]
RenameFunctionTransformer(name) == [t |-> "RenameFunctionTransformer", name |-> name]
CastArgsFunctionTransformer(name, cast_dtype) ==
    [t |-> "CastArgsFunctionTransformer", name |-> name, cast_dtype |-> cast_dtype]
LogBaseTransformer(base, base_first) ==
    [t |-> "LogBaseTransformer", base |-> base, base_first |-> base_first]
LogBaseWithLnTransformer(base, cast_dtype) ==
    [t |-> "LogBaseWithLnTransformer", base |-> base, cast_dtype |-> cast_dtype]

CommonBinaryOps ==
    {"Eq", "NotEq", "Lt", "LtEq", "Gt", "GtEq", "Plus", "Minus", "Multiply",
     "Divide", "And", "Or"}
CommonScalarFunctions ==
    {"abs", "acos", "asin", "atan", "atan2", "ceil", "coalesce", "cos", "exp",
     "floor", "pow", "round", "sin", "sqrt", "tan", "trunc"}

\* Dialect::bigquery()
bigquery ==
    [binary_ops |-> CommonBinaryOps,
     binary_op_transforms |-> [op \in {"Modulo"} |-> ModulusOpToFunction],
     scalar_functions |-> CommonScalarFunctions \cup {"ln", "log10"},
     scalar_transformers |->
        [name \in {"log", "log2", "signum", "random"} |->
            CASE name = "log" -> RenameFunctionTransformer("log10")
              [] name = "log2" -> LogBaseTransformer(2, FALSE)
              [] name = "signum" -> RenameFunctionTransformer("sign")
              [] name = "random" -> RenameFunctionTransformer("rand")]]

\* Dialect::redshift()
redshift ==
    [binary_ops |-> CommonBinaryOps \cup {"Modulo"},
     binary_op_transforms |-> [op \in {} |-> ModulusOpToFunction],
     scalar_functions |-> CommonScalarFunctions \cup {"random"},
     scalar_transformers |->
        [name \in {"log2", "ln", "log", "log10", "signum"} |->
            CASE name = "log2" -> LogBaseWithLnTransformer(2, Some("DOUBLE PRECISION"))
              [] name = "ln" -> CastArgsFunctionTransformer("ln", "DOUBLE PRECISION")
              [] name = "log" -> CastArgsFunctionTransformer("log", "DOUBLE PRECISION")
              [] name = "log10" -> CastArgsFunctionTransformer("log", "DOUBLE PRECISION")
              [] name = "signum" -> RenameFunctionTransformer("sign")]]

\* Dialect::snowflake()
snowflake ==
    [binary_ops |-> CommonBinaryOps \cup {"Modulo"},
     binary_op_transforms |-> [op \in {} |-> ModulusOpToFunction],
     scalar_functions |-> CommonScalarFunctions \cup {"ln", "random"},
     scalar_transformers |->
        [name \in {"log", "log10", "log2", "signum"} |->
            CASE name = "log" -> LogBaseTransformer(10, TRUE)
              [] name = "log10" -> LogBaseTransformer(10, TRUE)
              [] name = "log2" -> LogBaseTransformer(2, TRUE)
              [] name = "signum" -> RenameFunctionTransformer("sign")]]

\* The results are all Ok: their syntax trees; else the first error.
collect_results(results) ==
    IF \A i \in 1..Len(results) : results[i].ok
    THEN SqlOk([i \in 1..Len(results) |-> results[i].sql])
    ELSE results[CHOOSE i \in 1..Len(results) :
                    ~results[i].ok /\ \A j \in 1..(i - 1) : results[j].ok]

\* MOD with the operands the other way round.
modulus_operands_swapped(lhs, rhs) == SqlFunction("MOD", <<rhs, lhs>>)

\* ModulusOpToFunction::transform
modulus_op_to_function(lhs, rhs) == SqlFunction("MOD", <<lhs, rhs>>)

\* The arguments, each inside a cast when a type is given.
cast_args(sql_args, cast_dtype) ==
    IF IsSome(cast_dtype)
    THEN [i \in 1..Len(sql_args) |-> SqlCast(sql_args[i], Unwrap(cast_dtype))]
    ELSE sql_args

\* FunctionTransformer::transform on the arguments' syntax trees.
function_transform(transformer, sql_args) ==
    CASE transformer.t = "RenameFunctionTransformer" ->
            SqlFunction(transformer.name, sql_args)
      [] transformer.t = "CastArgsFunctionTransformer" ->
            SqlFunction(transformer.name,
                        cast_args(sql_args, Some(transformer.cast_dtype)))
      [] transformer.t = "LogBaseTransformer" ->
            LET base_arg == SqlNumber(ToString(transformer.base))
            IN  SqlFunction("log",
                            IF transformer.base_first
                            THEN <<base_arg>> \o sql_args
                            ELSE Append(sql_args, base_arg))
      [] transformer.t = "LogBaseWithLnTransformer" ->
            SqlBinaryOp(
                SqlFunction("ln", cast_args(sql_args, transformer.cast_dtype)),
                "Divide",
                SqlFunction("ln", <<SqlNumber(ToString(transformer.base))>>))

\* Expr::to_sql: a native name is emitted as it is, else the dialect's
\* transformer is applied, else the dialect does not support it.
RECURSIVE to_sql(_, _)
to_sql(expr, dialect) ==
    CASE expr.ir = "Column" -> SqlOk(SqlIdentifier(expr.name))
      [] expr.ir = "Literal" -> SqlOk(SqlNumber(ToString(expr.value)))
      [] expr.ir = "BinaryExpr" ->
            LET operands == collect_results(<<to_sql(expr.left, dialect),
                                              to_sql(expr.right, dialect)>>)
            IN  IF ~operands.ok THEN operands
                ELSE IF expr.op \in dialect.binary_ops
                THEN SqlOk(SqlBinaryOp(operands.sql[1], expr.op, operands.sql[2]))
                ELSE IF expr.op \in DOMAIN dialect.binary_op_transforms
                THEN SqlOk(modulus_op_to_function(operands.sql[1], operands.sql[2]))
                ELSE SqlErr("UnsupportedForDialect")
      [] expr.ir = "ScalarFunction" ->
            LET sql_args == collect_results(
                                [i \in 1..Len(expr.args) |-> to_sql(expr.args[i], dialect)])
            IN  IF expr.name \in dialect.scalar_functions
                THEN IF sql_args.ok THEN SqlOk(SqlFunction(expr.name, sql_args.sql))
                     ELSE sql_args
                ELSE IF expr.name \in DOMAIN dialect.scalar_transformers
                THEN IF sql_args.ok
                     THEN SqlOk(function_transform(
                                    dialect.scalar_transformers[expr.name], sql_args.sql))
                     ELSE sql_args
                ELSE SqlErr("UnsupportedForDialect")

\* The inputs.
Dialects == {"bigquery", "redshift", "snowflake"}
dialect_from_str(s) ==
    CASE s = "bigquery" -> bigquery
      [] s = "redshift" -> redshift
      [] s = "snowflake" -> snowflake

Operands == {Column("x"), Column("y"), Column("v"), Number(2)}
EmittedOps == {"Modulo", "Plus", "BitwiseAnd"}
EmittedFunctions == {"log2", "ln", "log", "log10", "signum", "abs", "cbrt"}
FlatExprs ==
    {BinaryExpr(l, op, r) : l \in {Column("x"), Number(2)}, op \in EmittedOps,
                            r \in {Column("y"), Number(2)}}
    \cup {ScalarFunction(name, <<v>>) : name \in EmittedFunctions, v \in Operands}
NestedExprs ==
    {ScalarFunction(name, <<BinaryExpr(Column("x"), op, Column("y"))>>) :
        name \in EmittedFunctions, op \in EmittedOps}
    \cup {BinaryExpr(ScalarFunction(name, <<Column("v")>>), op, Column("y")) :
        name \in EmittedFunctions, op \in EmittedOps}

InitDialect ==
    /\ \E d \in Dialects, expr \in FlatExprs \cup NestedExprs :
          fn_args = [dialect |-> d, expr |-> expr]
    /\ fn_ret = NotReturned
    /\ ExtractIdle /\ StIdle /\ MemberIdle /\ PipelineIdle /\ BinIdle

\* The expression is emitted for the dialect.
ToSql ==
    /\ ~fn_ret.done
    /\ fn_ret' = Returned(to_sql(fn_args.expr, dialect_from_str(fn_args.dialect)))
    /\ UNCHANGED fn_args
    /\ UNCHANGED pl_vars
    /\ UNCHANGED beside_pipeline

NextDialect == ToSql

SpecDialect == InitDialect /\ [][NextDialect]_vars

----------------------------------------------------------------------------
(* transform/bin.rs: the bin transform.                                    *)
(*                                                                         *)
(* An f64 is the fraction <<numerator, denominator>> in lowest terms with  *)
(* a positive denominator; a zero denominator marks the values that are    *)
(* not finite.  The arithmetic is exact, which is what the f64 arithmetic  *)
(* gives on the small values used here.                                    *)

NaN == <<0, 0>>
INFINITY == <<1, 0>>
NEG_INFINITY == <<-1, 0>>

RECURSIVE Gcd(_, _)
Gcd(a, b) == IF b = 0 THEN a ELSE Gcd(b, a % b)

Magnitude(i) == IF i < 0 THEN -i ELSE i

Fraction(a, b) ==
    LET g == Gcd(Magnitude(a), Magnitude(b))
        s == IF b < 0 THEN -1 ELSE 1
    IN  <<(s * a) \div g, (s * b) \div g>>

Whole(i) == <<i, 1>>

is_nan(x) == x = NaN
is_finite(x) == x[2] # 0

f64_add(x, y) ==
    IF is_nan(x) \/ is_nan(y) THEN NaN
    ELSE IF ~is_finite(x) THEN x
    ELSE IF ~is_finite(y) THEN y
    ELSE Fraction(x[1] * y[2] + y[1] * x[2], x[2] * y[2])

f64_neg(x) == <<-x[1], x[2]>>

f64_sub(x, y) == f64_add(x, f64_neg(y))

f64_mul(x, y) ==
    IF is_nan(x) \/ is_nan(y) THEN NaN
    ELSE Fraction(x[1] * y[1], x[2] * y[2])

\* x / y for a finite x and a finite y that is not zero.
f64_div(x, y) ==
    IF is_nan(x) \/ is_nan(y) THEN NaN
    ELSE Fraction(x[1] * y[2], x[2] * y[1])

\* Every comparison with NaN is false.
f64_lt(x, y) == ~is_nan(x) /\ ~is_nan(y) /\ x[1] * y[2] < y[1] * x[2]
f64_le(x, y) == ~is_nan(x) /\ ~is_nan(y) /\ x[1] * y[2] <= y[1] * x[2]
f64_gt(x, y) == f64_lt(y, x)
f64_ge(x, y) == f64_le(y, x)

f64_floor(x) == IF is_nan(x) THEN NaN ELSE Whole(x[1] \div x[2])
f64_ceil(x) == IF is_nan(x) THEN NaN ELSE Whole(-((-x[1]) \div x[2]))
f64_abs(x) == <<Magnitude(x[1]), x[2]>>

\* f64::max returns the other operand when one is NaN.
f64_max(x, y) == IF is_nan(x) THEN y ELSE IF is_nan(y) THEN x
                 ELSE IF f64_lt(x, y) THEN y ELSE x

\* `x as i32`: NaN becomes 0.
as_i32(x) == IF is_nan(x) THEN 0 ELSE x[1] \div x[2]

\* approx_eq!(f64, a, b): equal within 4 units in the last place, which for
\* the fractions used here means equal.
approx_eq(a, b) == a = b

\* The magnitudes, and their reciprocals, that the logarithms below tell apart.
MaxMagnitude == 1000

RECURSIVE IntPow(_, _)
IntPow(b, k) == IF k = 0 THEN 1 ELSE b * IntPow(b, k - 1)

\* base.powf(k) for a whole base above 0 and a whole k.
powf(b, k) == IF k >= 0 THEN <<IntPow(b, k), 1>> ELSE <<1, IntPow(b, -k)>>

\* The least k with b^k >= MaxMagnitude, for b > 1.
RECURSIVE max_exp_from(_, _)
max_exp_from(b, k) ==
    IF f64_le(Whole(MaxMagnitude), powf(b, k)) THEN k ELSE max_exp_from(b, k + 1)

max_exp(b) == max_exp_from(b, 0)

\* (x.ln() / logb).ceil() for b > 1: the least k with b^k >= x.
RECURSIVE ceil_log_from(_, _, _)
ceil_log_from(b, x, k) ==
    IF k >= max_exp(b) \/ f64_le(x, powf(b, k)) THEN k ELSE ceil_log_from(b, x, k + 1)

ceil_log(b, x) == ceil_log_from(b, x, -max_exp(b))

\* (x.ln() / logb).floor() for b > 1: the greatest k with b^k <= x.
RECURSIVE floor_log_from(_, _, _)
floor_log_from(b, x, k) ==
    IF k <= -max_exp(b) \/ f64_le(powf(b, k), x) THEN k ELSE floor_log_from(b, x, k - 1)

floor_log(b, x) == floor_log_from(b, x, max_exp(b))

\* (x.ln() / logb).round() for b > 1: the k with b^(k - 1/2) <= x < b^(k + 1/2),
\* that is the greatest k with b^(2k - 1) <= x^2.
RECURSIVE round_log_from(_, _, _)
round_log_from(b, x, k) ==
    IF k <= -max_exp(b) \/ f64_le(powf(b, 2 * k - 1), f64_mul(x, x)) THEN k
    ELSE round_log_from(b, x, k - 1)

round_log(b, x) == round_log_from(b, x, max_exp(b))

BinParams(start, stop, step, n) == [start |-> start, stop |-> stop, step |-> step, n |-> n]
BinOk(params) == [kind |-> "Ok", params |-> params]
BinErr(msg) == [kind |-> "Err", message |-> msg]

\* let mut span = if !approx_eq!(f64, min_, max_) { max_ - min_ } ...
default_span(min_, max_) ==
    IF ~approx_eq(min_, max_) THEN f64_sub(max_, min_)
    ELSE IF ~approx_eq(min_, Whole(0)) THEN f64_abs(min_)
    ELSE Whole(1)

\* if let Some(span_expression) = &tx.span { ... span = span_f64 }
span_of(tx) ==
    IF IsSome(tx.span) THEN Unwrap(tx.span)
    ELSE default_span(tx.extent[1], tx.extent[2])

RECURSIVE filter_steps(_, _)
filter_steps(steps, min_step_size) ==
    IF steps = <<>> THEN <<>>
    ELSE IF f64_gt(Head(steps), min_step_size)
         THEN <<Head(steps)>> \o filter_steps(Tail(steps), min_step_size)
         ELSE filter_steps(Tail(steps), min_step_size)

\* valid_steps.first().unwrap_or_else(|| tx.steps.last().unwrap())
step_from_steps(tx, span) ==
    LET min_step_size == f64_div(span, tx.maxbins)
        valid_steps == filter_steps(tx.steps, min_step_size)
    IN  IF valid_steps # <<>> THEN Head(valid_steps)
        ELSE tx.steps[Len(tx.steps)]

\* minstep.max(tx.base.powf((span.ln() / logb).round() - level)).  With base 1
\* logb is 0 and the exponent is infinite or NaN; 1.0.powf of anything is 1.
initial_step(tx, span) ==
    IF tx.base = 1 THEN f64_max(tx.minstep, Whole(1))
    ELSE LET level == ceil_log(tx.base, tx.maxbins)
         IN  f64_max(tx.minstep, powf(tx.base, round_log(tx.base, span) - level))

\* while (span / step).ceil() > tx.maxbins
too_many_bins(tx, span, step) == f64_gt(f64_ceil(f64_div(span, step)), tx.maxbins)

\* for div in &tx.divide { let v = step / div; if v >= minstep && span / v <= tx.maxbins { step = v } }
RECURSIVE decrease_step(_, _, _, _)
decrease_step(tx, span, step, divide) ==
    IF divide = <<>> THEN step
    ELSE LET v == f64_div(step, Head(divide))
         IN  IF f64_ge(v, tx.minstep) /\ f64_le(f64_div(span, v), tx.maxbins)
             THEN decrease_step(tx, span, v, Tail(divide))
             ELSE decrease_step(tx, span, step, Tail(divide))

\* let eps = tx.base.powf(-precision - 1.0): precision is 0 when ln(step) >= 0
\* and (-ln(step) / logb).floor() + 1 otherwise; ln of a negative step is NaN.
eps_of(tx, step) ==
    IF tx.base = 1 THEN Whole(1)
    ELSE IF f64_lt(step, Whole(0)) THEN NaN
    ELSE IF f64_ge(step, Whole(1)) THEN powf(tx.base, -1)
    ELSE powf(tx.base, -(floor_log(tx.base, f64_div(Whole(1), step)) + 1) - 1)

\* let (min_, max_) = if tx.nice { ... } else { (min_, max_) }
nice_extent(tx, step) ==
    LET min_ == tx.extent[1]
        max_ == tx.extent[2]
        v == f64_mul(f64_floor(f64_add(f64_div(min_, step), eps_of(tx, step))), step)
    IN  IF tx.nice
        THEN <<IF f64_lt(min_, v) THEN f64_sub(v, step) ELSE v,
               f64_mul(f64_ceil(f64_div(max_, step)), step)>>
        ELSE <<min_, max_>>

\* The statements of calculate_bin_params after the step is chosen.
finish_bin_params(tx, step) ==
    LET ext == nice_extent(tx, step)
        start == ext[1]
        stop == IF ~approx_eq(ext[2], ext[1]) THEN ext[2] ELSE f64_add(ext[1], step)
        shift == IF IsSome(tx.anchor)
                 THEN f64_sub(Unwrap(tx.anchor),
                              f64_add(start, f64_mul(step,
                                  f64_floor(f64_div(f64_sub(Unwrap(tx.anchor), start), step)))))
                 ELSE Whole(0)
        start1 == IF IsSome(tx.anchor) THEN f64_add(start, shift) ELSE start
        stop1 == IF IsSome(tx.anchor) THEN f64_add(stop, shift) ELSE stop
    IN  BinParams(start1, stop1, step,
                  as_i32(f64_ceil(f64_div(f64_sub(stop1, start1), step))))

\* let bin_starts: Vec<f64> = (0..n).map(|i| start + step * i as f64).collect()
bin_starts_of(params) ==
    [i \in 1..params.n |-> f64_add(params.start, f64_mul(params.step, Whole(i - 1)))]

\* A row value is [q, e] and stands for q + e * 1.0e-14, q a fraction and e
\* a small whole number: the values that lie next to a bin edge.  The
\* values next to 0 are f64 values; next to 100 an f64 is 1.4e-14 away.
RowValue(q, e) == [q |-> q, e |-> e]

\* floor(1.0e-14 + (v - start) / step).  With x = (v.q - start) / step the
\* operand is x + (v.e / step + 1) * 1.0e-14, which is below the whole x only
\* when that multiple of 1.0e-14 is negative.
bin_index(v, start, step) ==
    LET x == f64_div(f64_sub(v.q, start), step)
        r == f64_add(f64_div(Whole(v.e), step), Whole(1))
    IN  IF x[2] = 1 /\ f64_lt(r, Whole(0)) THEN x[1] - 1 ELSE x[1] \div x[2]

\* The edge rule without the test on v - last_stop.
lookup_bin_edge_open(v, bin_starts, step, last_stop) ==
    LET n == Len(bin_starts)
        bin_ind == bin_index(v, bin_starts[1], step)
    IN  IF bin_ind < 0 THEN NEG_INFINITY
        ELSE IF bin_ind >= n THEN INFINITY
        ELSE bin_starts[bin_ind + 1]

lookup_bin_edge(v, bin_starts, step, last_stop) ==
    LET n == Len(bin_starts)
        bin_ind == bin_index(v, bin_starts[1], step)
    IN  IF bin_ind < 0 THEN NEG_INFINITY
        ELSE IF bin_ind = n /\ v.q = last_stop /\ Magnitude(v.e) <= 1
             THEN bin_starts[Len(bin_starts)]
        ELSE IF bin_ind >= n THEN INFINITY
        ELSE bin_starts[bin_ind + 1]

\* if bin_tx.signal.is_some() { Some({fields, fname, start, step, stop}) } else { None }
compute_output_value(tx, start, stop, step) ==
    IF IsSome(tx.signal)
    THEN Some([fname |-> "bin_" \o tx.field, start |-> start, step |-> step, stop |-> stop])
    ELSE None

BinRow(bin0, bin1) == [bin0 |-> bin0, bin1 |-> bin1]
BinEvalOk(rows, output_value) == [kind |-> "Ok", rows |-> rows, signals |-> output_value]
BinPanic == [kind |-> "Panic"]

\* Bin::eval, after calculate_bin_params: a null row stays null in both columns.
bin_eval(tx, column, params) ==
    LET bin_starts == bin_starts_of(params)
    IN  IF bin_starts = <<>> THEN BinPanic   \* bin_starts.last().unwrap()
        ELSE LET last_stop == f64_add(bin_starts[Len(bin_starts)], params.step)
                 bin0(v) == lookup_bin_edge(v, bin_starts, params.step, last_stop)
             IN  BinEvalOk([i \in 1..Len(column) |->
                               IF IsSome(column[i])
                               THEN Some(BinRow(bin0(Unwrap(column[i])),
                                                f64_add(bin0(Unwrap(column[i])), params.step)))
                               ELSE None],
                           compute_output_value(tx, params.start, params.stop, params.step))

\* The CASE expression of eval_sql over the column __bin_index:
\*   when(index < 0, -inf).when(abs(v - last_stop) < 1.0e-14, last bin start)
\*   .when(index >= n, inf).otherwise(index * step + start)
sql_bin_start(v, params, bin_starts, last_stop) ==
    LET bin_ind == bin_index(v, params.start, params.step)
    IN  IF bin_ind < 0 THEN NEG_INFINITY
        ELSE IF v.q = last_stop /\ Magnitude(v.e) < 1 THEN bin_starts[Len(bin_starts)]
        ELSE IF bin_ind >= params.n THEN INFINITY
        ELSE f64_add(f64_mul(Whole(bin_ind), params.step), params.start)

\* Bin::eval_sql, after calculate_bin_params: every operator of the
\* expressions gives null on a null row.
bin_eval_sql(tx, column, params) ==
    LET bin_starts == bin_starts_of(params)
    IN  IF bin_starts = <<>> THEN BinPanic   \* bin_starts.last().unwrap()
        ELSE LET last_stop == f64_add(bin_starts[Len(bin_starts)], params.step)
                 bin0(v) == sql_bin_start(v, params, bin_starts, last_stop)
             IN  BinEvalOk([i \in 1..Len(column) |->
                               IF IsSome(column[i])
                               THEN Some(BinRow(bin0(Unwrap(column[i])),
                                                f64_add(bin0(Unwrap(column[i])), params.step)))
                               ELSE None],
                           compute_output_value(tx, params.start, params.stop, params.step))

\* The extents, step choices and columns the transform is run on.
Extents == {<<Whole(0), Whole(100)>>, <<Whole(0), Whole(300)>>, <<Whole(5), Whole(5)>>,
            <<Whole(0), Whole(0)>>, <<Whole(100), Whole(0)>>, <<Whole(0), Whole(1)>>,
            <<Whole(3), Whole(97)>>, <<Whole(-100), Whole(0)>>}

StepChoices ==
    {[step |-> None, steps |-> <<>>],
     [step |-> Some(Whole(10)), steps |-> <<>>],
     [step |-> Some(Whole(-10)), steps |-> <<>>],
     [step |-> Some(<<1, 2>>), steps |-> <<>>],
     [step |-> Some(Whole(10)), steps |-> <<Whole(5), Whole(20)>>],
     [step |-> None, steps |-> <<Whole(5), Whole(10), Whole(20)>>],
     [step |-> None, steps |-> <<Whole(20), Whole(10), Whole(5)>>],
     [step |-> None, steps |-> <<Whole(1), Whole(2)>>]}

BinColumn ==
    <<Some(RowValue(Whole(-101), 0)), Some(RowValue(Whole(-1), 0)),
      Some(RowValue(Whole(0), -2)), Some(RowValue(Whole(0), -1)), Some(RowValue(Whole(0), 0)),
      Some(RowValue(Whole(0), 1)), Some(RowValue(Whole(0), 2)),
      Some(RowValue(<<47, 2>>, 0)), Some(RowValue(Whole(90), 0)),
      Some(RowValue(Whole(100), 0)), Some(RowValue(Whole(105), 0)), None>>

NoBinResult == [eval |-> None, eval_sql |-> None]

InitBin ==
    /\ \E extent \in Extents, maxbins \in {Whole(5), Whole(10)}, base \in {1, 2, 10} :
        \E choice \in StepChoices, minstep \in {Whole(0), Whole(20)}, nice \in BOOLEAN :
            \E anchor \in {None, Some(Whole(3))}, span \in {None, Some(Whole(50))},
               signal \in {None, Some("bins")} :
                fn_args = [tx |-> [field |-> "x", extent |-> extent, maxbins |-> maxbins,
                                   base |-> base, step |-> choice.step, steps |-> choice.steps,
                                   minstep |-> minstep, divide |-> <<Whole(5), Whole(2)>>,
                                   nice |-> nice, anchor |-> anchor, span |-> span,
                                   signal |-> signal],
                           column |-> BinColumn]
    /\ fn_ret = NoBinResult
    /\ bin_pc = "extent"
    /\ bin_span = None
    /\ bin_step = None
    /\ bin_params = None
    /\ ExtractIdle /\ StIdle /\ MemberIdle /\ PipelineIdle

\* if min_ > max_ { return Err(..) }: eval and eval_sql return the error.
RejectExtent ==
    /\ bin_pc = "extent"
    /\ f64_gt(fn_args.tx.extent[1], fn_args.tx.extent[2])
    /\ fn_ret' = [eval |-> Some(BinErr("extent[1] must be greater than extent[0]")),
                  eval_sql |-> Some(BinErr("extent[1] must be greater than extent[0]"))]
    /\ bin_pc' = "done"
    /\ UNCHANGED <<fn_args, bin_span, bin_step, bin_params>>
    /\ UNCHANGED beside_bin

\* let step = if let Some(step) = tx.step { step }
UseStep ==
    /\ bin_pc = "extent"
    /\ ~f64_gt(fn_args.tx.extent[1], fn_args.tx.extent[2])
    /\ IsSome(fn_args.tx.step)
    /\ bin_span' = Some(span_of(fn_args.tx))
    /\ bin_step' = Some(Unwrap(fn_args.tx.step))
    /\ bin_pc' = "precision"
    /\ UNCHANGED <<fn_args, fn_ret, bin_params>>
    /\ UNCHANGED beside_bin

\* else if !tx.steps.is_empty() { ... }
ChooseFromSteps ==
    /\ bin_pc = "extent"
    /\ ~f64_gt(fn_args.tx.extent[1], fn_args.tx.extent[2])
    /\ ~IsSome(fn_args.tx.step) /\ fn_args.tx.steps # <<>>
    /\ bin_span' = Some(span_of(fn_args.tx))
    /\ bin_step' = Some(step_from_steps(fn_args.tx, span_of(fn_args.tx)))
    /\ bin_pc' = "precision"
    /\ UNCHANGED <<fn_args, fn_ret, bin_params>>
    /\ UNCHANGED beside_bin

\* else { let mut step = minstep.max(..); ... }
StartFromSpan ==
    /\ bin_pc = "extent"
    /\ ~f64_gt(fn_args.tx.extent[1], fn_args.tx.extent[2])
    /\ ~IsSome(fn_args.tx.step) /\ fn_args.tx.steps = <<>>
    /\ bin_span' = Some(span_of(fn_args.tx))
    /\ bin_step' = Some(initial_step(fn_args.tx, span_of(fn_args.tx)))
    /\ bin_pc' = "while"
    /\ UNCHANGED <<fn_args, fn_ret, bin_params>>
    /\ UNCHANGED beside_bin

\* while (span / step).ceil() > tx.maxbins { step *= tx.base; }
GrowStep ==
    /\ bin_pc = "while"
    /\ too_many_bins(fn_args.tx, Unwrap(bin_span), Unwrap(bin_step))
    /\ bin_step' = Some(f64_mul(Unwrap(bin_step), Whole(fn_args.tx.base)))
    /\ UNCHANGED <<fn_args, fn_ret, bin_pc, bin_span, bin_params>>
    /\ UNCHANGED beside_bin

\* The loop is left; for div in &tx.divide { ... }
DecreaseStep ==
    /\ bin_pc = "while"
    /\ ~too_many_bins(fn_args.tx, Unwrap(bin_span), Unwrap(bin_step))
    /\ bin_step' = Some(decrease_step(fn_args.tx, Unwrap(bin_span), Unwrap(bin_step),
                                      fn_args.tx.divide))
    /\ bin_pc' = "precision"
    /\ UNCHANGED <<fn_args, fn_ret, bin_span, bin_params>>
    /\ UNCHANGED beside_bin

\* Ok(BinParams { start, stop, step, n })
ReturnBinParams ==
    /\ bin_pc = "precision"
    /\ bin_params' = Some(finish_bin_params(fn_args.tx, Unwrap(bin_step)))
    /\ bin_pc' = "eval"
    /\ UNCHANGED <<fn_args, fn_ret, bin_span, bin_step>>
    /\ UNCHANGED beside_bin

EvalBin ==
    /\ bin_pc = "eval"
    /\ fn_ret.eval = None
    /\ fn_ret' = [fn_ret EXCEPT !.eval =
                     Some(bin_eval(fn_args.tx, fn_args.column, Unwrap(bin_params)))]
    /\ UNCHANGED <<fn_args, bin_pc, bin_span, bin_step, bin_params>>
    /\ UNCHANGED beside_bin

EvalSqlBin ==
    /\ bin_pc = "eval"
    /\ fn_ret.eval_sql = None
    /\ fn_ret' = [fn_ret EXCEPT !.eval_sql =
                     Some(bin_eval_sql(fn_args.tx, fn_args.column, Unwrap(bin_params)))]
    /\ UNCHANGED <<fn_args, bin_pc, bin_span, bin_step, bin_params>>
    /\ UNCHANGED beside_bin

NextBin ==
    \/ RejectExtent \/ UseStep \/ ChooseFromSteps \/ StartFromSpan
    \/ GrowStep \/ DecreaseStep \/ ReturnBinParams \/ EvalBin \/ EvalSqlBin

SpecBin == InitBin /\ [][NextBin]_vars

----------------------------------------------------------------------------
(* udfs/datetime/datetime_format.rs: format_timestamp.                     *)

\* Most timestamps in the data array.
MaxTimes == 2

\* `x as u32` of an i64 x: the low 32 bits, kept as two 16-bit halves.
as_u32(x) == [hi |-> (x \div 65536) % 65536, lo |-> x % 65536]

\* The u32 is below 2_000_000_000 = 30517 * 65536 + 37888.
below_two_billion(u) == u.hi < 30517 \/ (u.hi = 30517 /\ u.lo < 37888)

\* The i64 operators / and % round towards zero.
i64_div(a, b) == IF a >= 0 THEN a \div b ELSE -((-a) \div b)
i64_rem(a, b) == a - b * i64_div(a, b)

\* NaiveDateTime::from_timestamp_opt(secs, nsecs): None unless nsecs is below
\* 2_000_000_000 (from 1_000_000_000 on it is a leap second).
from_timestamp_opt(secs, nsecs) ==
    IF below_two_billion(nsecs)
    THEN Some([secs |-> secs, nanos |-> nsecs.hi * 65536 + nsecs.lo])
    ELSE None

\* The civil date of a day counted from 1970-01-01.
civil_from_days(days) ==
    LET z == days + 719468
        era == z \div 146097
        doe == z - era * 146097
        yoe == (doe - doe \div 1460 + doe \div 36524 - doe \div 146096) \div 365
        doy == doe - (365 * yoe + yoe \div 4 - yoe \div 100)
        mp == (5 * doy + 2) \div 153
        d == doy - (153 * mp + 2) \div 5 + 1
        m == IF mp < 10 THEN mp + 3 ELSE mp - 9
    IN  [year |-> yoe + era * 400 + (IF m <= 2 THEN 1 ELSE 0), month |-> m, day |-> d]

\* The decimal digits of i, filled with zeros up to a width.
Padded(i, width) ==
    LET digits == ToString(i)
    IN  IF width = 4 /\ i < 10 THEN "000" \o digits
        ELSE IF width = 4 /\ i < 100 THEN "00" \o digits
        ELSE IF width = 4 /\ i < 1000 THEN "0" \o digits
        ELSE IF width = 3 /\ i < 10 THEN "00" \o digits
        ELSE IF width = 3 /\ i < 100 THEN "0" \o digits
        ELSE IF width = 2 /\ i < 10 THEN "0" \o digits
        ELSE digits

\* naive_datetime.format("%Y-%m-%d %H:%M:%S.%L").to_string()
naive_format(naive_datetime) ==
    LET date == civil_from_days(naive_datetime.secs \div 86400)
        sod == naive_datetime.secs % 86400
        leap == IF naive_datetime.nanos >= 1000000000 THEN 1 ELSE 0
    IN  Padded(date.year, 4) \o "-" \o Padded(date.month, 2) \o "-" \o Padded(date.day, 2)
        \o " " \o Padded(sod \div 3600, 2) \o ":" \o Padded((sod % 3600) \div 60, 2)
        \o ":" \o Padded((sod % 60) + leap, 2)
        \o "." \o Padded((naive_datetime.nanos - leap * 1000000000) \div 1000000, 3)

FormatOk(value) == [kind |-> "Ok", value |-> value]
FormatErr(message) == [kind |-> "Err", message |-> message]
FormatPanic == [kind |-> "Panic", message |-> "invalid or out-of-range datetime"]

\* The closure applied to one element of utc_millis_array: None stands for
\* the panic of expect.
format_millis(utc_millis) ==
    LET utc_seconds == i64_div(utc_millis, 1000)
        utc_nanos == as_u32(i64_rem(utc_millis, 1000) * 1000000)
        naive_datetime == from_timestamp_opt(utc_seconds, utc_nanos)
    IN  IF IsSome(naive_datetime) THEN Some(naive_format(Unwrap(naive_datetime)))
        ELSE None

\* time_fn of make_time_format_udf: args.data is the data array or scalar
\* with its data type, args.format the format argument.
time_fn(args) ==
    LET data_array == args.data.values
        formatted == [i \in 1..Len(data_array) |->
                         IF IsSome(data_array[i])
                         THEN Some(Unwrap(format_millis(Unwrap(data_array[i]))))
                         ELSE None]
    IN  IF args.format.form # "Scalar"
        THEN FormatErr("Expected output_tz to be a scalar")
        ELSE IF args.data_type = "Null" THEN FormatOk(Array(data_array))
        ELSE IF \E i \in 1..Len(data_array) :
                    IsSome(data_array[i]) /\ format_millis(Unwrap(data_array[i])) = None
             THEN FormatPanic
        ELSE IF Len(formatted) # 1 THEN FormatOk(Array(formatted))
        ELSE FormatOk(Scalar(formatted[1]))

\* The timestamps of the data: milliseconds from 1970-01-01, before it and
\* after it, with and without a millisecond part.
Millis == {0, 1, 1500, 86400000, 2000000000, -1, -1000, -1500, -86400000, -86400001}

TimeFormat == "%Y-%m-%d %H:%M:%S.%L"

InitFormat ==
    /\ \E n \in 0..MaxTimes, as_scalar \in BOOLEAN, format_form \in {"Scalar", "Array"} :
        \E values \in [1..n -> {None} \cup {Some(t) : t \in Millis}] :
            /\ as_scalar => n = 1
            /\ \E dtype \in IF \A i \in 1..n : values[i] = None
                          THEN {"Timestamp", "Null"} ELSE {"Timestamp"} :
                fn_args = [data |-> IF as_scalar THEN Scalar(values[1]) ELSE Array(values),
                           data_type |-> dtype,
                           format |-> [form |-> format_form, values |-> <<TimeFormat>>]]
    /\ fn_ret = NotReturned
    /\ ExtractIdle /\ StIdle /\ MemberIdle /\ PipelineIdle /\ BinIdle

FormatTimestamp ==
    /\ ~fn_ret.done
    /\ fn_ret' = Returned(time_fn(fn_args))
    /\ UNCHANGED fn_args
    /\ UNCHANGED beside_fn

NextFormat == FormatTimestamp

SpecFormat == InitFormat /\ [][NextFormat]_vars

----------------------------------------------------------------------------
(* Properties of extract_server_data                                       *)

InputData == UNION {{<<s, i>> : i \in 1..Len(input_spec[s])} : s \in DOMAIN input_spec}

\* visit_data has returned Ok for the dataset.
Extracted(d) ==
    /\ d \in DOMAIN placed
    /\ outcome = "Err" => Head(walk) # DataVisit(d[1], d[2])

Original(d) == input_spec[d[1]][d[2]]
OnClient(d) == client_spec[d[1]][d[2]]
\* The transforms the visit of the dataset put into the server spec.
ServerTransforms(d) ==
    IF placed[d] = 0 THEN <<>> ELSE server_spec[d[1]][placed[d]].transform
Classified(d) == supported_vars[<<Original(d).name, d[1]>>]

\* C1: the server transforms followed by the client transforms of every
\* visited dataset are its original transforms, every server transform is
\* supported and the first client transform, if any, is not.
C1_SplitIsMaximalSupportedPrefix ==
    \A d \in InputData :
        Extracted(d) =>
            /\ ServerTransforms(d) \o OnClient(d).transform = Original(d).transform
            /\ \A k \in 1..Len(ServerTransforms(d)) : ServerTransforms(d)[k].supported
            /\ OnClient(d).transform # <<>> => ~OnClient(d).transform[1].supported

\* C2: a dataset classified Unsupported stays as it was on the client and
\* nothing is added to the server spec for it.
C2_UnsupportedUntouched ==
    \A d \in InputData :
        (Extracted(d) /\ Classified(d) = "Unsupported") =>
            /\ OnClient(d) = Original(d)
            /\ placed[d] = 0

\* C3: a dataset classified Supported is cloned unmodified into the server
\* spec at its scope path, and on the client only its name is left.
C3_SupportedMovedWhole ==
    \A d \in InputData :
        (Extracted(d) /\ Classified(d) = "Supported") =>
            /\ placed[d] # 0
            /\ d[1] \in DOMAIN server_spec
            /\ server_spec[d[1]][placed[d]] = Original(d)
            /\ OnClient(d) = [name |-> Original(d).name, source |-> None,
                              url |-> None, values |-> None, format |-> None,
                              on |-> None, transform |-> <<>>]

C3_Witness ==
    \E d \in InputData :
        /\ Extracted(d) /\ Classified(d) = "Supported"
        /\ d[1] # <<>>
        /\ Len(Original(d).transform) >= 2
        /\ IsSome(Original(d).url) /\ IsSome(Original(d).format)
        /\ IsSome(Original(d).on)

\* C4: a PartiallySupported dataset n leaves `_server_n` with the supported
\* prefix in the server spec at its scope; the client dataset keeps its name,
\* reads `_server_n`, keeps the rest of the transforms and nothing else.
C4_PartiallySupportedSplit ==
    \A d \in InputData :
        (Extracted(d) /\ Classified(d) = "PartiallySupported") =>
            LET orig == Original(d)
                n == Len(ServerTransforms(d))
            IN  /\ placed[d] # 0
                /\ d[1] \in DOMAIN server_spec
                /\ server_spec[d[1]][placed[d]].name = "_server_" \o orig.name
                /\ n < Len(orig.transform)
                /\ ServerTransforms(d) = SubSeq(orig.transform, 1, n)
                /\ \A k \in 1..n : orig.transform[k].supported
                /\ ~orig.transform[n + 1].supported
                /\ OnClient(d) =
                     [name |-> orig.name,
                      source |-> Some("_server_" \o orig.name),
                      url |-> None, values |-> None, format |-> None,
                      on |-> None,
                      transform |-> SubSeq(orig.transform, n + 1,
                                           Len(orig.transform))]

C4_Witness ==
    \E d \in InputData :
        /\ Extracted(d) /\ Classified(d) = "PartiallySupported"
        /\ d[1] # <<>>
        /\ Len(ServerTransforms(d)) = 1
        /\ Len(OnClient(d).transform) = 2
        /\ OnClient(d).transform[2].supported
        /\ IsSome(Original(d).url)

NoDuplicateNames(spec) ==
    \A s \in DOMAIN spec : Cardinality(DataNames(spec[s])) = Len(spec[s])

\* C5: when extract_server_data returns Ok, no scope of the server spec or of
\* the client spec has two datasets of one name and the task scope binds each
\* of their names once; a split whose `_server_n` is already a dataset of the
\* scope does not return Ok.
C5_NoDuplicateDataNames ==
    outcome = "Ok" =>
        /\ NoDuplicateNames(server_spec)
        /\ NoDuplicateNames(client_spec)
        /\ \A s \in DOMAIN task_scope :
              task_scope[s].datasets =
                  DataNames(client_spec[s]) \cup DataNames(server_spec[s])
        /\ \A d \in InputData :
              Classified(d) = "PartiallySupported" =>
                  ("_server_" \o Original(d).name) \notin DataNames(input_spec[d[1]])

C5_Witness ==
    /\ outcome = "Ok"
    /\ \E d \in InputData :
          /\ Classified(d) = "PartiallySupported"
          /\ d[1] # <<>>
          /\ ("_server_" \o Original(d).name) \in DataNames(input_spec[<<>>])
          /\ ("_server_" \o Original(d).name) \in DataNames(server_spec[<<>>])
          /\ ("_server_" \o Original(d).name) \in DataNames(server_spec[d[1]])

ReferredNames == Names \cup {"_server_" \o n : n \in Names}

\* C6: when extract_server_data returns Ok, the source of every client
\* dataset resolves in the task scope from the dataset's scope, the
\* `_server_n` of a split dataset at the dataset's own scope, and every data
\* name that resolved from a scope before still resolves from it.
C6_ReferencesResolve ==
    outcome = "Ok" =>
        /\ \A d \in InputData :
              IsSome(OnClient(d).source) =>
                  resolve_scope(task_scope, new_data(Unwrap(OnClient(d).source)), d[1]) # None
        /\ \A d \in InputData :
              Classified(d) = "PartiallySupported" =>
                  /\ OnClient(d).source = Some("_server_" \o Original(d).name)
                  /\ resolve_scope(task_scope, new_data("_server_" \o Original(d).name), d[1])
                        = Some(d[1])
        /\ \A s \in DOMAIN input_scope : \A n \in ReferredNames :
              resolve_scope(input_scope, new_data(n), s) # None =>
                  resolve_scope(task_scope, new_data(n), s) # None

C6_Witness ==
    /\ outcome = "Ok"
    /\ \E d \in InputData :
          /\ Classified(d) = "PartiallySupported"
          /\ d[1] # <<>>
          /\ IsSome(Original(d).source)
          /\ resolve_scope(input_scope, new_data(Unwrap(Original(d).source)), d[1]) = Some(<<>>)
          /\ resolve_scope(input_scope, new_data("_server_" \o Original(d).name), d[1]) = None

\* The signals a run of transforms emits.
SignalsOf(txs) == SeqToSet(output_signals_of(txs))

\* C20: for a PartiallySupported dataset n at scope s, every signal of a
\* transform moved to the server is, once the dataset is extracted, an
\* output signal of `_server_n` at s and none of n, and it was one of n
\* before (a signal that cannot be removed from n ends the extraction with
\* the error); the signals of the transforms that stay on the client stay
\* output signals of n.
C20_SignalsFollowTransforms ==
    \A d \in InputData :
        (Extracted(d) /\ Classified(d) = "PartiallySupported") =>
            LET n == Original(d).name
                moved == SignalsOf(take_while_supported(Original(d).transform))
                kept == SignalsOf(skip_while_supported(Original(d).transform))
                before == input_scope[d[1]].output_var_defs
                after == task_scope[d[1]].output_var_defs
            IN  /\ \A sig \in moved :
                      /\ <<sig, "_server_" \o n>> \in after
                      /\ <<sig, n>> \notin after
                      /\ <<sig, n>> \in before
                /\ \A sig \in kept \ moved :
                      <<sig, n>> \in before => <<sig, n>> \in after

C20_Witness ==
    \E d \in InputData :
        /\ outcome = "Ok"
        /\ Extracted(d) /\ Classified(d) = "PartiallySupported"
        /\ d[1] # <<>>
        /\ Len(Original(d).transform) = 3
        /\ IsSome(Original(d).transform[1].signal)
        /\ IsSome(Original(d).transform[3].signal)
        /\ <<"a_sig1", "_server_a">> \in task_scope[d[1]].output_var_defs
        /\ <<"a_sig3", "a">> \in task_scope[d[1]].output_var_defs

\* The server spec has the group of every visit made and of the visit at
\* hand: a dataset is visited in a scope the server spec has, a group mark
\* is visited when its parent is there and it is not yet; what was placed
\* for a dataset is in the dataset's own scope; no visit fails for want of
\* a group; at the end the server spec has the scopes of the client spec.
GroupsMirrored ==
    /\ (outcome \in {"walking", "Err"} /\ walk # <<>>) =>
          IF Head(walk).kind = "data"
          THEN Head(walk).scope \in DOMAIN server_spec
          ELSE /\ Parent(Head(walk).scope) \in DOMAIN server_spec
               /\ Head(walk).scope \notin DOMAIN server_spec
    /\ \A d \in InputData :
          (d \in DOMAIN placed /\ placed[d] # 0) =>
              /\ d[1] \in DOMAIN server_spec
              /\ placed[d] <= Len(server_spec[d[1]])
              /\ server_spec[d[1]][placed[d]].name \in
                    {Original(d).name, "_server_" \o Original(d).name}
    /\ outcome = "Ok" => DOMAIN server_spec = DOMAIN input_spec
    /\ DOMAIN server_spec \subseteq DOMAIN input_spec

\* A visit of a group mark adds that group, empty, to the server spec; no
\* other step adds or removes a group.
GroupAddedOnVisit ==
    IF outcome = "walking" /\ walk # <<>> /\ Head(walk).kind = "group"
    THEN /\ outcome' = "walking"
         /\ DOMAIN server_spec' = DOMAIN server_spec \cup {Head(walk).scope}
         /\ server_spec'[Head(walk).scope] = <<>>
         /\ \A s \in DOMAIN server_spec : server_spec'[s] = server_spec[s]
    ELSE DOMAIN server_spec' = DOMAIN server_spec

\* C21: during the walk an empty group is added to the server spec for
\* every group mark of the client spec, under the mirror of its parent and
\* before anything inside the group is visited; so get_nested_group_mut
\* succeeds for every scope of the client spec and a dataset extracted from
\* a scope is stored in the server spec at that scope.
C21_GroupsMirroredBeforeUse ==
    /\ []GroupsMirrored
    /\ [][GroupAddedOnVisit]_vars

C21_Witness ==
    /\ outcome = "Ok"
    /\ DOMAIN server_spec = {<<>>, <<0>>, <<0, 0>>}
    /\ \E d \in InputData :
          /\ d[1] = <<0, 0>>
          /\ placed[d] = 1
          /\ server_spec[<<0, 0>>][1].name = "_server_a"

--------------------------------------------------------------------------
\* Properties of stringify_local_datetimes.

\* The scopes from `scope` outwards.
Prefixes(scope) == {SubSeq(scope, 1, k) : k \in 0..Len(scope)}

\* The nearest of these scopes at which the chart declares a name of `names`.
Nearest(names, name, scope) ==
    LET found == {p \in Prefixes(scope) : name \in names[p]}
    IN  IF found = {} THEN None
        ELSE Some(CHOOSE p \in found : \A q \in found : Len(q) <= Len(p))

DataNamesAt(chart) == [s \in StScopes |-> DataNames(chart.data[s])]
ScaleNamesAt(chart) ==
    [s \in StScopes |-> {chart.scales[s][i].name : i \in 1..Len(chart.scales[s])}]

\* The scale `name` declared at scope s has type time.
IsTimeScale(chart, name, s) ==
    \E i \in 1..Len(chart.scales[s]) :
        chart.scales[s][i].name = name /\ chart.scales[s][i].type = Some("time")

\* The pair (dataset d at scope s, field f) is recorded.
Recorded(d, s, f) ==
    /\ ScopedVar(new_data(d), s) \in DOMAIN local_datetime_fields
    /\ f \in local_datetime_fields[ScopedVar(new_data(d), s)]

\* Some non-group mark of the client spec reads d at s, which the server
\* sends to the client, and scales the plain field f by a time scale.
TimeScaledByMark(d, s, f) ==
    LET chart == st_input.client
    IN  \E ms \in StScopes : \E i \in 1..Len(chart.marks[ms]) :
          LET mark == chart.marks[ms][i]
          IN  /\ mark.from = Some(d)
              /\ Nearest(DataNamesAt(chart), d, ms) = Some(s)
              /\ [var |-> [ns |-> "data", name |-> d], scope |-> s]
                    \in comm_plan.server_to_client
              /\ \E j \in 1..Len(mark.channels) :
                   LET channel == mark.channels[j]
                   IN  /\ IsSome(channel.scale)
                       /\ channel.field = Some([kind |-> "Field", name |-> f])
                       /\ LET at == Nearest(ScaleNamesAt(chart),
                                            Unwrap(channel.scale), ms)
                          IN  /\ IsSome(at)
                              /\ IsTimeScale(chart, Unwrap(channel.scale), Unwrap(at))

StDataNames == {"c", "d"}
StFields == {FieldOrder[i] : i \in 1..Len(FieldOrder)}

\* C7: once the fields are collected, the pair (dataset d at its resolved
\* scope, field f) is recorded exactly when some non-group mark reads d, d is
\* a Data variable the server sends to the client, and a channel of the mark
\* has a scale and the plain field f and its scale resolves, nearest scope
\* first, to a scale of type time; utc and untyped scales, signal entries of
\* the comm plan and group marks record nothing.
C7_RecordedIffTimeScaled ==
    st_pc \in {"stringify", "format"} =>
        \A d \in StDataNames, s \in StScopes, f \in StFields :
            Recorded(d, s, f) <=> TimeScaledByMark(d, s, f)

\* A dataset of the group is recorded with two fields while the group mark
\* itself scales a third one.
C7_Witness ==
    /\ st_pc = "stringify"
    /\ Recorded("d", <<0>>, "f") /\ Recorded("d", <<0>>, "g")
    /\ ~Recorded("d", <<0>>, "h")
    /\ ~Recorded("d", <<>>, "f")
    /\ "d" \in DataNames(st_input.client.data[<<>>])

\* How often a transform occurs in a pipeline.
Count(transforms, tx) == Cardinality({i \in 1..Len(transforms) : transforms[i] = tx})

\* The transforms from the k-th on.
From(transforms, k) == SubSeq(transforms, k, Len(transforms))

\* The dataset `d` of scope s has the transform.
HasTransform(chart, d, s, tx) ==
    \E i \in 1..Len(chart.data[s]) :
        /\ chart.data[s][i].name = d
        /\ Count(chart.data[s][i].transform, tx) > 0

\* C8: when stringify_local_datetimes returns Ok, for every recorded pair
\* (d at s, f) the server dataset d at s has exactly one new timeFormat
\* formula written to f, the new formulas follow all its previous transforms
\* in sorted field order, and the client dataset d at s has exactly one new
\* toDate formula written to f, the new formulas before all its previous
\* transforms, whose order is kept; a field is stringified on the server
\* exactly when it is parsed on the client.
C8_FormulasPlaced ==
    st_result = "Ok" =>
        /\ \A key \in DOMAIN local_datetime_fields :
             LET d == key.var.name
                 s == key.scope
                 fs == sorted(local_datetime_fields[key])
             IN  /\ \E i \in 1..Len(st_server_spec.data[s]) :
                        st_server_spec.data[s][i].name = d
                 /\ \A i \in 1..Len(st_server_spec.data[s]) :
                      st_server_spec.data[s][i].name = d =>
                        LET old == st_input.server.data[s][i].transform
                            new == st_server_spec.data[s][i].transform
                            k == Len(new) - Len(fs) - Len(old)
                        IN  /\ k >= 0
                            /\ SubSeq(new, k + 1, k + Len(old)) = old
                            /\ From(new, k + Len(old) + 1)
                                 = [j \in 1..Len(fs) |->
                                      [kind |-> "formula",
                                       expr |-> "timeFormat(datum['" \o fs[j]
                                                \o "'], '%Y-%m-%d %H:%M:%S.%L')",
                                       as |-> fs[j]]]
                            /\ \A j \in 1..Len(fs) :
                                 Count(new, time_format_formula(fs[j])) = 1
                 /\ \E i \in 1..Len(st_client_spec.data[s]) :
                        st_client_spec.data[s][i].name = d
                 /\ \A i \in 1..Len(st_client_spec.data[s]) :
                      st_client_spec.data[s][i].name = d =>
                        LET old == st_input.client.data[s][i].transform
                            new == st_client_spec.data[s][i].transform
                        IN  /\ Len(new) = Len(old) + Len(fs)
                            /\ From(new, Len(fs) + 1) = old
                            /\ \A j \in 1..Len(fs) :
                                 /\ Count(new, [kind |-> "formula",
                                                expr |-> "toDate(datum['" \o fs[j]
                                                         \o "'])",
                                                as |-> fs[j]]) = 1
                                 /\ \E p \in 1..Len(fs) :
                                      new[p] = to_date_formula(fs[j])
        /\ \A d \in StDataNames, s \in StScopes, f \in StFields :
             HasTransform(st_server_spec, d, s, time_format_formula(f))
                <=> HasTransform(st_client_spec, d, s, to_date_formula(f))

\* Two fields of a dataset with two previous transforms are bridged.
C8_Witness ==
    /\ st_result = "Ok"
    /\ \E key \in DOMAIN local_datetime_fields :
         /\ local_datetime_fields[key] = {"f", "g"}
         /\ Len(st_input.server.data[key.scope][1].transform) >= 2
         /\ Len(st_input.client.data[key.scope][1].transform) >= 2

C22_ChildrenParseDates ==
    st_result = "Ok" =>
        \A s \in StScopes : \A i \in 1..Len(st_server_spec.data[s]) :
            LET data == st_input.server.data[s][i]
                old == data.transform
                new == st_server_spec.data[s][i].transform
                at == IF IsSome(data.source)
                      THEN Nearest(DataNamesAt(st_input.server), Unwrap(data.source), s)
                      ELSE None
                key == IF IsSome(at)
                       THEN ScopedVar(new_data(Unwrap(data.source)), Unwrap(at))
                       ELSE None
            IN  IF IsSome(at) /\ key \in DOMAIN local_datetime_fields
                THEN LET fs == local_datetime_fields[key]
                         k == Cardinality(fs)
                     IN  /\ Len(new) >= k + Len(old)
                         /\ SubSeq(new, k + 1, k + Len(old)) = old
                         /\ \A f \in fs :
                              /\ Count(new, to_date_formula(f)) = 1
                              /\ \E p \in 1..k :
                                   /\ new[p] = to_date_formula(f)
                                   /\ new[p].as = f
                                   /\ new[p].expr = "toDate(datum['" \o f \o "'])"
                ELSE /\ IsSome(data.source) => SubSeq(new, 1, Len(old)) = old
                     /\ IsSome(data.source) =>
                            \A f \in StFields : Count(new, to_date_formula(f)) = 0

\* A nested dataset reads a root dataset recorded with two fields.
C22_Witness ==
    /\ st_result = "Ok"
    /\ \E i \in 1..Len(st_server_spec.data[<<0>>]) :
         /\ st_input.server.data[<<0>>][i].source = Some("d")
         /\ Len(st_input.server.data[<<0>>][i].transform) = 2
         /\ ScopedVar(new_data("d"), <<>>) \in DOMAIN local_datetime_fields
         /\ local_datetime_fields[ScopedVar(new_data("d"), <<>>)] = {"f", "g"}
         /\ Len(st_server_spec.data[<<0>>][i].transform) = 4
         /\ st_server_spec.data[<<0>>][i].transform[1].as = "g"
         /\ st_server_spec.data[<<0>>][i].transform[2].as = "f"

--------------------------------------------------------------------------
\* Properties of compile_member.

\* The constant properties under study with their string forms; a signal is
\* a constant where the config defines it.
ConstantForms(config) ==
    {<<Literal(Utf8("bar")), "bar">>,
     <<Literal(Utf8("1")), "1">>,
     <<Literal(Float64(2)), "1">>,
     <<Literal(Float64(3)), "1.5">>,
     <<Literal(Float64(-2)), "-1">>,
     <<Literal(Boolean(TRUE)), "true">>,
     <<BinaryPlus(Literal(Utf8("b")), Literal(Utf8("ar"))), "bar">>,
     <<BinaryPlus(Literal(Float64(2)), Literal(Float64(2))), "2">>}
    \cup (IF "sel" \in DOMAIN config.signal_scope
          THEN {<<Identifier("sel"), "bar">>, <<Identifier("idx"), "1">>}
          ELSE {})

\* The properties under study that read a column.
NonConstant == {DatumFoo, BinaryPlus(Literal(Utf8("b")), DatumFoo)}

\* C10: for a member expression whose object is `datum`, compile_member
\* returns Column(p): p is the name of the property for `datum.p` and the
\* string form of the folded constant for `datum[expr]`, whatever the schema;
\* a computed property that is not constant makes compilation fail.
C10_DatumMemberIsColumn ==
    (m_result # Pending /\ m_node.object = Identifier("datum")) =>
        /\ (~m_node.computed /\ m_node.property.type = "Identifier") =>
              m_result = [kind |-> "Ok", error |-> "",
                          expr |-> [ir |-> "Column", name |-> m_node.property.name,
                                    value |-> Opaque("Null"), args |-> <<>>]]
        /\ m_node.computed =>
              \A form \in ConstantForms(m_config) :
                  form[1] = m_node.property =>
                      m_result = [kind |-> "Ok", error |-> "",
                                  expr |-> [ir |-> "Column", name |-> form[2],
                                            value |-> Opaque("Null"), args |-> <<>>]]
        /\ (m_node.computed /\ m_node.property \in NonConstant) =>
              m_result.kind = "Err"

\* `datum["b"+"ar"]` is compiled to Column("bar") against a schema that has
\* no such column.
C10_Witness ==
    /\ m_node = MemberExpression(Identifier("datum"),
                                 BinaryPlus(Literal(Utf8("b")), Literal(Utf8("ar"))),
                                 TRUE)
    /\ m_schema = ("foo" :> "Struct")
    /\ m_result = Ok(col("bar"))

NonStructObject ==
    /\ m_node.object # Identifier("datum")
    /\ compile(m_node.object, m_config, m_schema).kind = "Ok"
    /\ IsSome(data_type(compile(m_node.object, m_config, m_schema).expr, m_schema))
    /\ Unwrap(data_type(compile(m_node.object, m_config, m_schema).expr, m_schema))
          # "Struct"

\* C12: for `obj.length` whose object is not `datum` and not of struct type,
\* compile_member returns the expression length(obj): it neither aborts nor
\* returns an error.
C12_LengthOfNonObject ==
    (/\ m_result # Pending
     /\ NonStructObject
     /\ ~m_node.computed
     /\ m_node.property = Identifier("length")) =>
        /\ m_result.kind = "Ok"
        /\ m_result.expr.ir = "ScalarUDF"
        /\ m_result.expr.name = "length"
        /\ m_result.expr.args = <<compile(m_node.object, m_config, m_schema).expr>>

\* The type of the object of the node, where NonStructObject holds.
ObjectType ==
    Unwrap(data_type(compile(m_node.object, m_config, m_schema).expr, m_schema))

\* The computed properties under study that spell a non-negative integer,
\* with that integer.
IndexForms(config) ==
    {<<Literal(Float64(2)), 1>>,
     <<Literal(Utf8("1")), 1>>,
     <<BinaryPlus(Literal(Float64(2)), Literal(Float64(2))), 2>>}
    \cup (IF "idx" \in DOMAIN config.signal_scope
          THEN {<<Identifier("idx"), 1>>} ELSE {})

\* C13: for an object of list or string type compile_member builds get[i]
\* exactly when the property spells a non-negative integer i, and with that
\* i; any other property (a name, a negative or fractional number) and any
\* object that is neither datum, struct, list nor string gives a
\* CompilationError. (`obj.length` is the case of C12.)
C13_ElementIndex ==
    (/\ m_result # Pending
     /\ NonStructObject
     /\ ~(~m_node.computed /\ m_node.property = Identifier("length"))) =>
        IF /\ ObjectType \in {"List", "FixedSizeList", "Utf8", "LargeUtf8"}
           /\ m_node.computed
           /\ \E form \in IndexForms(m_config) : form[1] = m_node.property
        THEN \A form \in IndexForms(m_config) :
                form[1] = m_node.property =>
                    m_result =
                        [kind |-> "Ok", error |-> "",
                         expr |-> [ir |-> "ScalarUDF",
                                   name |-> "get[" \o ToString(form[2]) \o "]",
                                   value |-> Opaque("Null"),
                                   args |-> <<compile(m_node.object, m_config,
                                                      m_schema).expr>>]]
        ELSE m_result = [kind |-> "Err", expr |-> <<>>, error |-> "CompilationError"]

--------------------------------------------------------------------------
\* Properties of get[index].

\* The characters of a string: a character starts at every byte but "é2".
CharsOf(s) ==
    LET lead == SelectSeq(s, LAMBDA b : b # "é2")
    IN  [k \in 1..Len(lead) |->
            IF lead[k] = "é1" THEN <<"é1", "é2">> ELSE <<lead[k]>>]

\* The i-th element of a list or character of a string, or null.
ElementAt(value, i) ==
    LET items == IF value.t = "List"
                 THEN [k \in 1..Len(value.v) |-> <<value.v[k]>>]
                 ELSE CharsOf(value.v)
    IN  IF 0 <= i /\ i < Len(items)
        THEN [null |-> FALSE, v |-> items[i + 1]]
        ELSE [null |-> TRUE, v |-> <<>>]

\* Two values are both null or hold the same.
SameValue(a, b) == a.null = b.null /\ (a.null \/ a.v = b.v)

\* C14: get[i] gives, for a scalar list or string, the i-th element or
\* character when 0 <= i < length and null otherwise; for an array it gives
\* an array of the same length whose row r is that of row r; a scalar gives
\* what the one-row array holding it gives.
C14_GetElement ==
    fn_ret.done =>
        /\ fn_ret.value.form = fn_args.arg.form
        /\ Len(fn_ret.value.values) = Len(fn_args.arg.values)
        /\ \A r \in 1..Len(fn_args.arg.values) :
              SameValue(fn_ret.value.values[r],
                        ElementAt(fn_args.arg.values[r], fn_args.index))
        /\ fn_args.arg.form = "Scalar" =>
              /\ get_fn(fn_args.index, Array(fn_args.arg.values)).form = "Array"
              /\ SameValue(fn_ret.value.values[1],
                           get_fn(fn_args.index, Array(fn_args.arg.values)).values[1])

\* C29: for an argument of each type compile_member builds get[i] for
\* (List, FixedSizeList, Utf8, LargeUtf8) the return-type function of get[i]
\* succeeds, with the element type for a list and utf8 for a string, and the
\* evaluation returns values of that type: neither the Float64 null of the
\* fallback arm nor the error 'Unsupported datatype'.
C29_GetReturnsDeclaredType ==
    fn_ret.done =>
        /\ fn_ret.return_type.kind = "Ok"
        /\ fn_ret.return_type.t =
              (IF arg_type(fn_args.arg) \in {"List", "FixedSizeList"}
               THEN ElementType ELSE "Utf8")
        /\ fn_ret.value.form = fn_args.arg.form
        /\ \A r \in 1..Len(fn_ret.value.values) :
              fn_ret.value.values[r].t = fn_ret.return_type.t

--------------------------------------------------------------------------
\* Properties of the impute transform.

\* An impute with one groupby column has returned a dataframe.
ImputedByGroup ==
    /\ fn_ret.done
    /\ fn_ret.value.ok
    /\ fn_ret.value.via \in {"single_groupby_sql", "single_groupby"}

\* The positions of the rows of a sequence with key k and group g.
RowsAt(rows, k, g) == {i \in 1..Len(rows) : rows[i].k = k /\ rows[i].g = g}

ScenarioRows ==
    <<[k |-> "1", g |-> "a", v |-> "7"], [k |-> "2", g |-> "a", v |-> NULL],
      [k |-> "1", g |-> "b", v |-> "7"]>>

C16_ImputeFlag ==
    ImputedByGroup =>
        LET in == fn_args.dataframe.rows
            out == fn_ret.value.dataframe.rows
        IN  \A i \in 1..Len(out) :
                out[i]["_impute"] =
                    IF RowsAt(in, out[i].k, out[i].g) = {} THEN "true" ELSE NULL

\* C30: with one groupby column every input row, the rows with a null key
\* or a null groupby value among them, is in the output once, with all its
\* columns but the field as they were; the input rows keep their order and
\* the synthesized rows come after all of them; the output columns are the
\* input columns in their order followed by "_impute".
C30_InputRowsKept ==
    ImputedByGroup =>
        LET in == fn_args.dataframe.rows
            out == fn_ret.value.dataframe.rows
        IN  /\ fn_ret.value.dataframe.columns = fn_args.dataframe.columns \o <<"_impute">>
            /\ Len(out) >= Len(in)
            /\ \A i \in 1..Len(in) :
                  /\ i <= Len(out)
                  /\ \A name \in SeqToSet(fn_args.dataframe.columns) \ {fn_args.tx.field} :
                        out[i][name] = in[i][name]
            /\ \A i \in (Len(in) + 1)..Len(out) : RowsAt(in, out[i].k, out[i].g) = {}

--------------------------------------------------------------------------
\* Properties of Aggregate::new.

\* The alias the precedence rule gives entry i of fields.
AliasByPrecedence(transform, i) ==
    IF /\ IsSome(transform.as_)
       /\ i <= Len(Unwrap(transform.as_))
       /\ IsSome(Unwrap(transform.as_)[i])
    THEN Unwrap(Unwrap(transform.as_)[i])
    ELSE field_alias(transform.fields[i])

\* C17: Aggregate::new yields one alias per entry of fields: the entry of
\* the transform's `as` when it has a non-null one there, else the field's
\* own `as` when present, else the empty string; ops and fields keep their
\* order and lengths.
C17_AliasPrecedence ==
    fn_ret.done =>
        /\ fn_ret.value.kind = "Ok"
        /\ Len(fn_ret.value.aliases) = Len(fn_args.fields)
        /\ \A i \in 1..Len(fn_args.fields) :
              fn_ret.value.aliases[i] = AliasByPrecedence(fn_args, i)
        /\ Len(fn_ret.value.fields) = Len(fn_args.fields)
        /\ \A i \in 1..Len(fn_args.fields) :
              fn_ret.value.fields[i] = field_name(fn_args.fields[i])
        /\ Len(fn_ret.value.ops) = Len(fn_args.ops)
        /\ \A i \in 1..Len(fn_args.ops) :
              fn_ret.value.ops[i].variant = fn_args.ops[i]

--------------------------------------------------------------------------
\* Properties of TransformPipeline::call.

\* What the k-th call made gave back.
ResultOfCall(k) ==
    transform_eval(fn_args.transforms[k], pl_calls[k].dataframe, pl_calls[k].config)

\* The signals the k-th call made emitted, by name.
EmittedByCall(k) ==
    LET names == pl_output_signals(fn_args.transforms[k])
        values == ResultOfCall(k).values
        paired == {i \in 1..Len(names) : i <= Len(values)}
    IN  [n \in {names[i] : i \in paired} |->
            values[CHOOSE i \in paired :
                      /\ names[i] = n
                      /\ \A j \in paired : names[j] = n => j <= i]]

\* Scope a with the entries of b in place of, or added to, its own.
Overridden(a, b) ==
    [n \in DOMAIN a \cup DOMAIN b |-> IF n \in DOMAIN b THEN b[n] ELSE a[n]]

\* The caller's scope and the signals emitted by the calls before the k-th.
RECURSIVE ScopeBefore(_)
ScopeBefore(k) ==
    IF k = 1 THEN fn_args.config.signal_scope
    ELSE Overridden(ScopeBefore(k - 1), EmittedByCall(k - 1))

\* The calls made so far were made in list order, each on the output of
\* the one before and with the scope grown by the signals emitted before.
CallsInListOrder ==
    \A k \in 1..Len(pl_calls) :
        /\ pl_calls[k].tx = k
        /\ k <= Len(fn_args.transforms)
        /\ pl_calls[k].dataframe =
              IF k = 1 THEN fn_args.dataframe ELSE ResultOfCall(k - 1).dataframe
        /\ pl_calls[k].config.signal_scope = ScopeBefore(k)
        /\ k < Len(pl_calls) => ResultOfCall(k).ok

\* What is returned: the error of the first failing call, or, after every
\* transform was called, the last output.
ReturnsFirstFailure ==
    fn_ret.done =>
        IF fn_ret.value.ok
        THEN /\ Len(pl_calls) = Len(fn_args.transforms)
             /\ \A k \in 1..Len(pl_calls) : ResultOfCall(k).ok
        ELSE /\ pl_calls # <<>>
             /\ ~ResultOfCall(Len(pl_calls)).ok
             /\ fn_ret.value.error = ResultOfCall(Len(pl_calls)).error

\* A step calls at most the next transform, calls none once the call has
\* returned, and leaves the caller's arguments as they are.
StepCallsNext ==
    /\ pl_calls' = pl_calls \/ (Len(pl_calls') = Len(pl_calls) + 1 /\ ~fn_ret.done)
    /\ \A k \in 1..Len(pl_calls) : pl_calls'[k] = pl_calls[k]
    /\ fn_args' = fn_args

\* C18: TransformPipeline::call evaluates the transforms strictly in list
\* order; transform k is given the output of transform k-1 (the caller's
\* dataframe for the first) and the caller's signal scope plus the signals
\* emitted by the transforms before it, a later emission overriding an
\* earlier one of the same name; the first failing transform ends the call
\* with its error and no later transform is evaluated; the caller's config
\* is never modified.
C18_PipelineInListOrder ==
    /\ [](CallsInListOrder /\ ReturnsFirstFailure)
    /\ [][StepCallsNext]_vars

C18_Witness ==
    /\ fn_ret.done
    /\ fn_ret.value.ok
    /\ fn_args.config.signal_scope = [n \in {"e"} |-> "caller"]
    /\ fn_args.transforms = <<[kind |-> "Extent", signal |-> "e"],
                              [kind |-> "Extent", signal |-> "e"],
                              [kind |-> "Filter", signal |-> "e"]>>
    /\ pl_calls[2].config.signal_scope["e"] = "extent1"
    /\ pl_calls[3].config.signal_scope["e"] = "extent2"
    /\ fn_ret.value.dataframe[4].with = "extent2"

--------------------------------------------------------------------------
\* Properties of the dialects.

\* The emitted syntax tree of an operand.
Emitted(expr) == to_sql(expr, dialect_from_str(fn_args.dialect))

\* C19: BigQuery emits x % y as MOD(x, y), the operands in that order;
\* Snowflake emits log2(v) as log(2, v), the base first; Redshift emits
\* ln(v) as ln(CAST(v AS DOUBLE PRECISION)); in each case the operator or
\* function is not native to the dialect, so its transformer is used.
C19_DialectRewrites ==
    fn_ret.done =>
        LET expr == fn_args.expr
        IN  /\ (/\ fn_args.dialect = "bigquery"
                /\ expr.ir = "BinaryExpr" /\ expr.op = "Modulo"
                /\ Emitted(expr.left).ok /\ Emitted(expr.right).ok)
               => /\ "Modulo" \notin bigquery.binary_ops
                  /\ fn_ret.value =
                        SqlOk(SqlFunction("MOD", <<Emitted(expr.left).sql,
                                                   Emitted(expr.right).sql>>))
            /\ (/\ fn_args.dialect = "snowflake"
                /\ expr.ir = "ScalarFunction" /\ expr.name = "log2"
                /\ Emitted(expr.args[1]).ok)
               => /\ "log2" \notin snowflake.scalar_functions
                  /\ fn_ret.value =
                        SqlOk(SqlFunction("log", <<SqlNumber("2"),
                                                   Emitted(expr.args[1]).sql>>))
            /\ (/\ fn_args.dialect = "redshift"
                /\ expr.ir = "ScalarFunction" /\ expr.name = "ln"
                /\ Emitted(expr.args[1]).ok)
               => /\ "ln" \notin redshift.scalar_functions
                  /\ fn_ret.value =
                        SqlOk(SqlFunction("ln",
                                  <<SqlCast(Emitted(expr.args[1]).sql,
                                            "DOUBLE PRECISION")>>))

C19_Witness ==
    /\ fn_ret.done
    /\ fn_args.dialect = "bigquery"
    /\ fn_args.expr = BinaryExpr(Column("x"), "Modulo", Column("y"))
    /\ fn_ret.value.ok
    /\ fn_ret.value.sql = [sql |-> "Function", name |-> "MOD",
                           args |-> <<[sql |-> "Identifier", value |-> "x"],
                                      [sql |-> "Identifier", value |-> "y"]>>]

----------------------------------------------------------------------------
\* Properties of the bin transform.

\* The sign of a + b * 1.0e-14 for fractions a and b.
SignOf(a, b) ==
    IF a[1] # 0 THEN (IF a[1] > 0 THEN 1 ELSE -1)
    ELSE IF b[1] > 0 THEN 1 ELSE IF b[1] < 0 THEN -1 ELSE 0

\* k <= (v - start) / step + 1.0e-14 < k + 1
IsIndex(k, v, start, step) ==
    LET a == f64_sub(f64_div(f64_sub(v.q, start), step), Whole(k))
        b == f64_add(f64_div(Whole(v.e), step), Whole(1))
    IN  SignOf(a, b) >= 0 /\ SignOf(f64_sub(a, Whole(1)), b) < 0

IndexOf(v, start, step) ==
    LET near == as_i32(f64_floor(f64_div(f64_sub(v.q, start), step)))
    IN  CHOOSE k \in {near - 1, near, near + 1} : IsIndex(k, v, start, step)

\* |v - x| <= 1.0e-14
WithinEps(v, x) == v.q = x /\ v.e \in {-1, 0, 1}

EvalReturnedOk == IsSome(fn_ret.eval) /\ Unwrap(fn_ret.eval).kind = "Ok"
SqlReturnedOk == IsSome(fn_ret.eval_sql) /\ Unwrap(fn_ret.eval_sql).kind = "Ok"

\* The row where the column has the value q + e * 1.0e-14.
RowOf(q, e) == CHOOSE i \in 1..Len(BinColumn) : BinColumn[i] = Some(RowValue(q, e))

\* C23: in the result of Bin::eval, with i = floor((v - start)/step + 1e-14),
\* bin0 of a row with value v is -infinity when i < 0, the last bin start
\* start + (n-1)*step when i = n and |v - (start + n*step)| <= 1e-14,
\* +infinity when i >= n otherwise, and start + i*step in the other cases;
\* bin1 is bin0 + step.  With start 0, step 10 and n 10 the value 23.5 gets
\* (20, 30) and the value 100 gets (90, 100).
C23_BinEdges ==
    EvalReturnedOk =>
        LET p == Unwrap(bin_params)
            rows == Unwrap(fn_ret.eval).rows
            last_start == f64_add(p.start, f64_mul(Whole(p.n - 1), p.step))
            stop_edge == f64_add(p.start, f64_mul(Whole(p.n), p.step))
        IN  /\ \A r \in 1..Len(fn_args.column) :
                 IsSome(fn_args.column[r]) =>
                    LET v == Unwrap(fn_args.column[r])
                        i == IndexOf(v, p.start, p.step)
                        bin0 == IF i < 0 THEN NEG_INFINITY
                                ELSE IF i = p.n /\ WithinEps(v, stop_edge) THEN last_start
                                ELSE IF i >= p.n THEN INFINITY
                                ELSE f64_add(p.start, f64_mul(Whole(i), p.step))
                    IN  /\ IsSome(rows[r])
                        /\ Unwrap(rows[r]).bin0 = bin0
                        /\ Unwrap(rows[r]).bin1 = f64_add(bin0, p.step)
            /\ (p.start = Whole(0) /\ p.step = Whole(10) /\ p.n = 10) =>
                 /\ rows[RowOf(<<47, 2>>, 0)] = Some(BinRow(Whole(20), Whole(30)))
                 /\ rows[RowOf(Whole(100), 0)] = Some(BinRow(Whole(90), Whole(100)))

\* Ten bins of width 10, from 0 and from -100: every case of the rule has a row.
C23_Witness ==
    /\ EvalReturnedOk
    /\ \/ /\ Unwrap(bin_params) = BinParams(Whole(0), Whole(100), Whole(10), 10)
          /\ LET rows == Unwrap(fn_ret.eval).rows
             IN  /\ Unwrap(rows[RowOf(Whole(-1), 0)]).bin0 = NEG_INFINITY
                 /\ Unwrap(rows[RowOf(<<47, 2>>, 0)]) = BinRow(Whole(20), Whole(30))
                 /\ Unwrap(rows[RowOf(Whole(100), 0)]) = BinRow(Whole(90), Whole(100))
                 /\ Unwrap(rows[RowOf(Whole(105), 0)]).bin1 = INFINITY
       \/ /\ Unwrap(bin_params) = BinParams(Whole(-100), Whole(0), Whole(10), 10)
          /\ LET rows == Unwrap(fn_ret.eval).rows
             IN  /\ Unwrap(rows[RowOf(Whole(0), -1)]) = BinRow(Whole(-10), Whole(0))
                 /\ Unwrap(rows[RowOf(Whole(0), 1)]) = BinRow(Whole(-10), Whole(0))
                 /\ Unwrap(rows[RowOf(Whole(0), 2)]).bin0 = INFINITY
                 /\ Unwrap(rows[RowOf(Whole(-1), 0)]) = BinRow(Whole(-10), Whole(0))

\* The elements of steps above span / maxbins.
StepsAbove(tx, span) ==
    {tx.steps[i] : i \in {j \in 1..Len(tx.steps) : f64_gt(tx.steps[j], f64_div(span, tx.maxbins))}}

\* C24: with no step given and a non-empty steps, the step chosen is the
\* smallest element of steps above span / maxbins, whatever the order of
\* steps, and the last element of steps when no element is above it.
C24_SmallestStep ==
    (bin_pc = "precision" /\ ~IsSome(fn_args.tx.step) /\ fn_args.tx.steps # <<>>) =>
        LET tx == fn_args.tx
            above == StepsAbove(tx, Unwrap(bin_span))
        IN  IF above # {}
            THEN Unwrap(bin_step) \in above
                 /\ \A s \in above : f64_le(Unwrap(bin_step), s)
            ELSE Unwrap(bin_step) = tx.steps[Len(tx.steps)]

\* C25: whenever calculate_bin_params returns Ok the parameters have
\* step > 0 and n >= 1, and neither Bin::eval nor Bin::eval_sql aborts
\* taking the last bin start.
C25_BinStartsNonEmpty ==
    /\ IsSome(bin_params) =>
          f64_gt(Unwrap(bin_params).step, Whole(0)) /\ Unwrap(bin_params).n >= 1
    /\ IsSome(fn_ret.eval) => Unwrap(fn_ret.eval).kind # "Panic"
    /\ IsSome(fn_ret.eval_sql) => Unwrap(fn_ret.eval_sql).kind # "Panic"

\* The most rounds of the loop a step is followed for.
MaxRounds == 12

\* C26: calculate_bin_params returns for every transform whose extent is not
\* rejected: the loop that multiplies step by base is left after finitely
\* many rounds, and then ceil(span / step) <= maxbins and step >= minstep.
C26_LoopTerminates ==
    /\ bin_pc = "while" =>
          \E k \in 0..MaxRounds :
             ~too_many_bins(fn_args.tx, Unwrap(bin_span),
                            f64_mul(Unwrap(bin_step), powf(fn_args.tx.base, k)))
    /\ (bin_pc = "precision" /\ fn_args.tx.step = None /\ fn_args.tx.steps = <<>>) =>
          /\ f64_le(f64_ceil(f64_div(Unwrap(bin_span), Unwrap(bin_step))), fn_args.tx.maxbins)
          /\ f64_ge(Unwrap(bin_step), fn_args.tx.minstep)

\* C27: Bin::eval and Bin::eval_sql give every row the same bin start and
\* the same bin end, the bin start plus step.
C27_EvalSqlAgree ==
    (EvalReturnedOk /\ SqlReturnedOk) =>
        /\ Unwrap(fn_ret.eval_sql).rows = Unwrap(fn_ret.eval).rows
        /\ \A r \in 1..Len(fn_args.column) :
              IsSome(fn_args.column[r]) =>
                 Unwrap(Unwrap(fn_ret.eval_sql).rows[r]).bin1
                    = f64_add(Unwrap(Unwrap(fn_ret.eval_sql).rows[r]).bin0,
                              Unwrap(bin_params).step)

----------------------------------------------------------------------------
\* Properties of format_timestamp.

\* The seconds before t and the nanoseconds from there to t.
InstantOf(t) == [secs |-> t \div 1000, nanos |-> (t % 1000) * 1000000]

\* C28: format_timestamp gives every non-null millisecond timestamp t, the
\* negative ones with a millisecond part among them, the formatted date and
\* time of the seconds and the nanoseconds in [0, 10^9) that make up the
\* instant t, and does not abort; a null gives a null.
C28_FormatsEveryInstant ==
    (fn_ret.done /\ fn_args.format.form = "Scalar" /\ fn_args.data_type = "Timestamp") =>
        /\ fn_ret.value.kind = "Ok"
        /\ Len(fn_ret.value.value.values) = Len(fn_args.data.values)
        /\ \A i \in 1..Len(fn_args.data.values) :
              LET t == fn_args.data.values[i]
              IN  fn_ret.value.value.values[i] =
                     IF IsSome(t) THEN Some(naive_format(InstantOf(Unwrap(t)))) ELSE None

====
